---- MODULE Spec2Model ----
(***************************************************************************)
(* linear-issue-bridge: the read-through TTL cache (internal/cache) and    *)
(* the public-label resolver/applier (internal/linearapi PublicLabeler),   *)
(* as state machines over a remote issue tracker; the GitHub webhook       *)
(* handler and the identifier scanner (internal/github).                   *)
(***************************************************************************)
EXTENDS Integers, Sequences, FiniteSets, TLC

(* ------------------------------ bounds --------------------------------- *)
\* The clock runs from 0 to MaxTime ticks.
MaxTime == 3
\* The ttl handed to cache.New, in ticks.
TTL == 2
\* EnsurePublicLabel invocations started on one PublicLabeler instance.
MaxInvocations == 3
\* The pieces a text handed to ScanIdentifiers is made of.
MaxPieces == 3
\* The pages a listing of the remote has at most.
MaxPages == 2
\* The longest text ParseIdentifier is called with.
MaxIdentifierLen == 4
\* The newest version an issue of the tracker reaches.
MaxVersion == 2

(* ------------------------------ values --------------------------------- *)
Identifiers == {"MIR-1", "MIR-2"}
Goroutines == {"g1", "g2"}
\* A nil *Issue: no issue.
Nil == [nil |-> TRUE]
NoErr == "ok"
\* entries[identifier] with ok = false.
NoEntry == [ok |-> FALSE]
\* What a remote call can fail with: a non-200 / GraphQL error, or the
\* caller's context being cancelled or timing out.
RemoteErrs == {"upstream", "canceled"}
teamKey == "MIR"
LabelUUID == "label-uuid-public"

IssueID(identifier) ==
    CASE identifier = "MIR-1" -> "issue-uuid-1"
      [] identifier = "MIR-2" -> "issue-uuid-2"
LabelLists == {<<>>, <<"public">>, <<"nonpublic">>}
Issue(identifier, labels) ==
    [ID |-> IssueID(identifier), Identifier |-> identifier, Labels |-> labels]
\* What the tracker can hold for an identifier: no issue, or one issue.
RemoteIssues(identifier) ==
    {Nil} \cup {Issue(identifier, ls) : ls \in LabelLists}

VARIABLES
    now,          \* the wall clock (time.Now)
    remote,       \* the tracker: identifier -> Nil or the issue
    remoteLabel,  \* the tracker: ID of the team's "public" label, "" if none
    entries,      \* Cache.entries: identifier -> NoEntry or entry
    get,          \* per goroutine: the frame of its Cache.Get call
    labelOnce,    \* PublicLabeler.labelOnce: "fresh", "running", "done"
    labelID,      \* PublicLabeler.labelID
    labelErr,     \* PublicLabeler.labelErr
    ensure,       \* per goroutine: the frame of its EnsurePublicLabel call
    started,      \* EnsurePublicLabel invocations started on the instance
    labelFetches, \* FetchLabelByName calls made by the instance
    labelReply,   \* what FetchLabelByName answered the instance, if called
    observed,     \* the (labelID, labelErr) pairs resolveLabelID returned
    hook,         \* the frame of the WebhookHandler.ServeHTTP call
    scan,         \* the frame of a ScanIdentifiers call
    backfill,     \* the RepoScanner and the frame of its ScanRepo call
    parse,        \* the frame of a ParseIdentifier call
    serve,        \* the frame of the GET /{identifier} handler
    run           \* the frame of the backfill command's run

cacheVars == <<entries, get>>
labelerVars == <<labelOnce, labelID, labelErr, ensure, started, labelFetches,
                 labelReply, observed>>
githubVars == <<hook, scan>>
frontVars == <<backfill, parse, serve, run>>
vars == <<now, remote, remoteLabel, entries, get, labelOnce, labelID, labelErr,
          ensure, started, labelFetches, labelReply, observed, hook, scan,
          backfill, parse, serve, run>>

(* --------------------------- the remote -------------------------------- *)
\* Client.FetchIssue: the issue the tracker holds now (Nil when it has
\* none), or an error with no issue.
FetchIssue(identifier) ==
    {[issue |-> remote[identifier], err |-> NoErr]}
        \cup {[issue |-> Nil, err |-> e] : e \in RemoteErrs}

\* Client.FetchLabelByName(teamKey, name): the ID of the team's label of that
\* name ("" with no error when the team has none), or an error.
FetchLabelByName(team, name) ==
    {[id |-> IF team = teamKey /\ name = "public" THEN remoteLabel ELSE "",
      err |-> NoErr]}
        \cup {[id |-> "", err |-> e] : e \in RemoteErrs}

\* Client.AddLabel(issueID, labelID): an error, or the tracker adds the label
\* to the issue of that ID (adding a label the issue carries changes
\* nothing).  Each outcome comes with the tracker's state after it.
AddLabel(issueID, id) ==
    {[err |-> e, remote |-> remote] : e \in RemoteErrs}
        \cup {[err |-> NoErr,
                remote |-> [remote EXCEPT ![k] =
                    IF \E i \in 1..Len(@.Labels) : @.Labels[i] = "public"
                    THEN @ ELSE [@ EXCEPT !.Labels = Append(@, "public")]]] :
                k \in {k \in Identifiers :
                          remote[k] # Nil /\ IssueID(k) = issueID
                             /\ id # "" /\ id = remoteLabel}}

\* HasLabel that looks at the first label only.
HasLabelFirstOnly(issue, name) ==
    Len(issue.Labels) >= 1 /\ issue.Labels[1] = name

\* Issue.HasLabel: some element of the label list carries the name.
HasLabel(issue, name) ==
    \E i \in 1..Len(issue.Labels) : issue.Labels[i] = name

\* The tracker's state changes under the cache, which never looks inside an
\* issue: the issue of an identifier is created (unlabelled) or deleted.
RemoteCreateDelete ==
    /\ \E k \in Identifiers :
          remote' = [remote EXCEPT ![k] =
                        IF remote[k] = Nil THEN Issue(k, <<>>) ELSE Nil]
    /\ UNCHANGED <<githubVars, frontVars, now, remoteLabel, cacheVars, labelerVars>>

\* The issue of an identifier is created (unlabelled) or edited: it is given
\* one more label, so every version of it differs from the ones before.
RemoteEdit(k) ==
    /\ (IF remote[k] = Nil THEN 0 ELSE Len(remote[k].Labels) + 1) < MaxVersion
    /\ remote' = [remote EXCEPT ![k] =
          IF remote[k] = Nil THEN Issue(k, <<>>)
          ELSE Issue(k, Append(remote[k].Labels, "nonpublic"))]
    /\ UNCHANGED <<githubVars, frontVars, now, remoteLabel, cacheVars, labelerVars>>

\* Time passes.
Tick ==
    /\ now < MaxTime
    /\ now' = now + 1
    /\ UNCHANGED <<githubVars, frontVars, remote, remoteLabel, cacheVars, labelerVars>>

(* ------------------------------ Cache ---------------------------------- *)
\* The frame of one Cache.Get call.  e is the entry read from the map (held
\* until the hit test), issue/err are the results, calls counts the
\* FetchIssue calls of this Get.  found records what the map held for the
\* identifier when the hit test ran: "absent", "stale" or "fresh".  floor
\* records the newest version of the issue that the Gets of the other
\* goroutines had returned for the identifier when this Get began.
IdleGet ==
    [pc |-> "idle", identifier |-> "", e |-> NoEntry, found |-> "",
     issue |-> Nil, err |-> NoErr, calls |-> 0, floor |-> 0]

\* A Get call is in progress in goroutine g.
InGet(g) == get[g].pc \notin {"idle", "done"}

\* Fresh with the window one tick short.
FreshOffByOne(e, t) == e # NoEntry /\ t - e.fetchedAt < TTL - 1

\* Fresh with an entry of age ttl still served.
FreshInclusive(e, t) == e # NoEntry /\ t - e.fetchedAt <= TTL

\* ok && time.Since(e.fetchedAt) < c.ttl
Fresh(e, t) == e # NoEntry /\ t - e.fetchedAt < TTL

\* What the hit test was run on (a record of the case, not used by Get).
Found(e, t) ==
    IF e = NoEntry THEN "absent"
    ELSE IF t - e.fetchedAt >= TTL THEN "stale" ELSE "fresh"

\* The version of an issue as the tracker holds it: 0 for no issue, then
\* one more with every label the issue has been given.
Version(issue) == IF issue = Nil THEN 0 ELSE Len(issue.Labels) + 1

\* The newest version a Get of another goroutine has returned for k.
Floor(g, k) ==
    LET versions ==
            {Version(get[h].issue) : h \in {h \in Goroutines \ {g} :
                get[h].pc = "done" /\ get[h].identifier = k /\ get[h].err = NoErr}}
    IN  IF versions = {} THEN 0
        ELSE CHOOSE v \in versions : \A w \in versions : w <= v

\* RLock; e, ok := c.entries[identifier]; RUnlock
GetRead(g, k) ==
    /\ ~InGet(g)
    /\ get' = [get EXCEPT ![g] =
          [IdleGet EXCEPT !.pc = "check", !.identifier = k, !.e = entries[k],
                          !.floor = Floor(g, k)]]
    /\ UNCHANGED <<githubVars, frontVars, now, remote, remoteLabel, entries, labelerVars>>

\* GetCheck that leaves the refresh to a Get already fetching the
\* identifier and returns what the map held.
GetCheckLeavesRefresh(g) ==
    /\ get[g].pc = "check"
    /\ get' = [get EXCEPT ![g] =
          IF Fresh(get[g].e, now)
             \/ \E h \in Goroutines \ {g} :
                   /\ get[h].identifier = get[g].identifier
                   /\ get[h].pc \in {"fetch", "store"}
          THEN [@ EXCEPT !.pc = "done", !.found = Found(get[g].e, now),
                         !.issue = IF get[g].e = NoEntry THEN Nil ELSE get[g].e.issue,
                         !.err = NoErr, !.e = NoEntry]
          ELSE [@ EXCEPT !.pc = "fetch", !.found = Found(get[g].e, now),
                         !.e = NoEntry]]
    /\ UNCHANGED <<githubVars, frontVars, now, remote, remoteLabel, entries, labelerVars>>

\* The hit test on the entry that was read; a hit returns e.issue, nil.
GetCheck(g) ==
    /\ get[g].pc = "check"
    /\ get' = [get EXCEPT ![g] =
          IF Fresh(get[g].e, now)
          THEN [@ EXCEPT !.pc = "done", !.found = Found(get[g].e, now),
                         !.issue = get[g].e.issue, !.err = NoErr, !.e = NoEntry]
          ELSE [@ EXCEPT !.pc = "fetch", !.found = Found(get[g].e, now),
                         !.e = NoEntry]]
    /\ UNCHANGED <<githubVars, frontVars, now, remote, remoteLabel, entries, labelerVars>>

\* GetFetch that remembers a failed fetch as "no issue".
GetFetchCacheError(g) ==
    /\ get[g].pc = "fetch"
    /\ \E r \in FetchIssue(get[g].identifier) :
          /\ get' = [get EXCEPT ![g] =
                IF r.err # NoErr
                THEN [@ EXCEPT !.pc = "done", !.calls = @ + 1,
                               !.issue = Nil, !.err = r.err]
                ELSE [@ EXCEPT !.pc = "store", !.calls = @ + 1, !.issue = r.issue]]
          /\ entries' = IF r.err # NoErr
                        THEN [entries EXCEPT ![get[g].identifier] =
                                 [issue |-> Nil, fetchedAt |-> now]]
                        ELSE entries
    /\ UNCHANGED <<githubVars, frontVars, now, remote, remoteLabel, labelerVars>>

\* GetFetch whose fetcher answers with the issue of the entry, when the map
\* holds one.
GetFetchFromEntry(g) ==
    /\ get[g].pc = "fetch"
    /\ \E r \in IF entries[get[g].identifier] = NoEntry
                THEN FetchIssue(get[g].identifier)
                ELSE {[issue |-> entries[get[g].identifier].issue, err |-> NoErr]} :
          get' = [get EXCEPT ![g] =
              IF r.err # NoErr
              THEN [@ EXCEPT !.pc = "done", !.calls = @ + 1,
                             !.issue = Nil, !.err = r.err]
              ELSE [@ EXCEPT !.pc = "store", !.calls = @ + 1, !.issue = r.issue]]
    /\ UNCHANGED <<githubVars, frontVars, now, remote, remoteLabel, entries, labelerVars>>

\* issue, err := c.fetcher.FetchIssue(ctx, identifier), outside any lock;
\* if err != nil { return nil, err }
GetFetch(g) ==
    /\ get[g].pc = "fetch"
    /\ \E r \in FetchIssue(get[g].identifier) :
          get' = [get EXCEPT ![g] =
              IF r.err # NoErr
              THEN [@ EXCEPT !.pc = "done", !.calls = @ + 1,
                             !.issue = Nil, !.err = r.err]
              ELSE [@ EXCEPT !.pc = "store", !.calls = @ + 1, !.issue = r.issue]]
    /\ UNCHANGED <<githubVars, frontVars, now, remote, remoteLabel, entries, labelerVars>>

\* GetStore that caches found issues only.
GetStoreSkipNil(g) ==
    /\ get[g].pc = "store"
    /\ entries' = IF get[g].issue = Nil THEN entries
                  ELSE [entries EXCEPT ![get[g].identifier] =
                           [issue |-> get[g].issue, fetchedAt |-> now]]
    /\ get' = [get EXCEPT ![g] = [@ EXCEPT !.pc = "done", !.err = NoErr]]
    /\ UNCHANGED <<githubVars, frontVars, now, remote, remoteLabel, labelerVars>>

\* GetStore that leaves alone an entry another Get has refreshed meanwhile.
GetStoreUnlessRefreshed(g) ==
    /\ get[g].pc = "store"
    /\ entries' = IF Fresh(entries[get[g].identifier], now) THEN entries
                  ELSE [entries EXCEPT ![get[g].identifier] =
                           [issue |-> get[g].issue, fetchedAt |-> now]]
    /\ get' = [get EXCEPT ![g] = [@ EXCEPT !.pc = "done", !.err = NoErr]]
    /\ UNCHANGED <<githubVars, frontVars, now, remote, remoteLabel, labelerVars>>

\* Lock; c.entries[identifier] = &entry{issue, time.Now()}; Unlock;
\* return issue, nil
GetStore(g) ==
    /\ get[g].pc = "store"
    /\ entries' = [entries EXCEPT ![get[g].identifier] =
                      [issue |-> get[g].issue, fetchedAt |-> now]]
    /\ get' = [get EXCEPT ![g] = [@ EXCEPT !.pc = "done", !.err = NoErr]]
    /\ UNCHANGED <<githubVars, frontVars, now, remote, remoteLabel, labelerVars>>

(* --------------------------- PublicLabeler ----------------------------- *)
\* An error value of EnsurePublicLabel: cause wrapped by fmt.Errorf under
\* wrap ("" when cause is returned as it is); NilError is the nil error.
Wrap(wrap, cause) == [wrap |-> wrap, cause |-> cause]
NilError == Wrap("", NoErr)
\* fmt.Errorf("label %q not found in team %s", "public", l.teamKey)
LabelNotFound == "label \"public\" not found in team MIR"

NoIssueReply == [issue |-> Nil, err |-> "none"]
NoLabelReply == [id |-> "", err |-> "none"]

\* The frame of one EnsurePublicLabel call.  reply is what FetchIssue
\* answered, calls the remote calls of this invocation in order; first and
\* addErr is what AddLabel answered;
\* overlapped record whether it was the instance's first invocation and
\* whether another invocation was in progress at any time during it.
IdleEnsure ==
    [pc |-> "idle", identifier |-> "", reply |-> NoIssueReply, labelID |-> "",
     addErr |-> "none", err |-> NilError, calls |-> <<>>, first |-> FALSE,
     overlapped |-> FALSE]

InEnsure(g) == ensure[g].pc \notin {"idle", "done"}

\* A call of EnsurePublicLabel(ctx, identifier) begins.
EnsureCall(g, k) ==
    /\ ~InEnsure(g)
    /\ started < MaxInvocations
    /\ started' = started + 1
    /\ ensure' = [h \in Goroutines |->
          IF h = g
          THEN [IdleEnsure EXCEPT !.pc = "fetch", !.identifier = k,
                   !.first = (started = 0),
                   !.overlapped = \E o \in Goroutines \ {g} : InEnsure(o)]
          ELSE IF InEnsure(h) THEN [ensure[h] EXCEPT !.overlapped = TRUE]
               ELSE ensure[h]]
    /\ UNCHANGED <<githubVars, frontVars, now, remote, remoteLabel, cacheVars, labelOnce, labelID,
                   labelErr, labelFetches, labelReply, observed>>

\* EnsureFetch that reports a missing issue as a failure.
EnsureFetchAbsentIsError(g) ==
    /\ ensure[g].pc = "fetch"
    /\ \E r \in FetchIssue(ensure[g].identifier) :
          ensure' = [ensure EXCEPT ![g] =
              LET f == [@ EXCEPT !.reply = r,
                         !.calls = Append(@, <<"FetchIssue", ensure[g].identifier>>)]
              IN  IF r.err # NoErr
                  THEN [f EXCEPT !.pc = "done", !.err = Wrap("fetch issue", r.err)]
                  ELSE IF r.issue = Nil
                  THEN [f EXCEPT !.pc = "done",
                                 !.err = Wrap("fetch issue", "issue not found")]
                  ELSE IF HasLabel(r.issue, "public")
                  THEN [f EXCEPT !.pc = "done", !.err = NilError]
                  ELSE [f EXCEPT !.pc = "resolve"]]
    /\ UNCHANGED <<githubVars, frontVars, now, remote, remoteLabel, cacheVars, labelOnce, labelID,
                   labelErr, started, labelFetches, labelReply, observed>>

\* EnsureFetch whose client answers with the issue another invocation
\* fetched for the same identifier, when there is one.
EnsureFetchFromPrevious(g) ==
    /\ ensure[g].pc = "fetch"
    /\ \E r \in IF \E h \in Goroutines \ {g} :
                     /\ ensure[h].identifier = ensure[g].identifier
                     /\ ensure[h].reply.err = NoErr /\ ensure[h].reply.issue # Nil
                THEN {ensure[h].reply : h \in {h \in Goroutines \ {g} :
                         /\ ensure[h].identifier = ensure[g].identifier
                         /\ ensure[h].reply.err = NoErr /\ ensure[h].reply.issue # Nil}}
                ELSE FetchIssue(ensure[g].identifier) :
          ensure' = [ensure EXCEPT ![g] =
              LET f == [@ EXCEPT !.reply = r,
                         !.calls = Append(@, <<"FetchIssue", ensure[g].identifier>>)]
              IN  IF r.err # NoErr
                  THEN [f EXCEPT !.pc = "done", !.err = Wrap("fetch issue", r.err)]
                  ELSE IF r.issue = Nil
                  THEN [f EXCEPT !.pc = "done", !.err = NilError]
                  ELSE IF HasLabel(r.issue, "public")
                  THEN [f EXCEPT !.pc = "done", !.err = NilError]
                  ELSE [f EXCEPT !.pc = "resolve"]]
    /\ UNCHANGED <<githubVars, frontVars, now, remote, remoteLabel, cacheVars, labelOnce, labelID,
                   labelErr, started, labelFetches, labelReply, observed>>

\* EnsureFetch without the HasLabel("public") return.
EnsureFetchNoLabelTest(g) ==
    /\ ensure[g].pc = "fetch"
    /\ \E r \in FetchIssue(ensure[g].identifier) :
          ensure' = [ensure EXCEPT ![g] =
              LET f == [@ EXCEPT !.reply = r,
                         !.calls = Append(@, <<"FetchIssue", ensure[g].identifier>>)]
              IN  IF r.err # NoErr
                  THEN [f EXCEPT !.pc = "done", !.err = Wrap("fetch issue", r.err)]
                  ELSE IF r.issue = Nil
                  THEN [f EXCEPT !.pc = "done", !.err = NilError]
                  ELSE [f EXCEPT !.pc = "resolve"]]
    /\ UNCHANGED <<githubVars, frontVars, now, remote, remoteLabel, cacheVars, labelOnce, labelID,
                   labelErr, started, labelFetches, labelReply, observed>>

\* issue, err := l.client.FetchIssue(ctx, identifier); the error return,
\* the nil-issue return and the HasLabel("public") return.
EnsureFetch(g) ==
    /\ ensure[g].pc = "fetch"
    /\ \E r \in FetchIssue(ensure[g].identifier) :
          ensure' = [ensure EXCEPT ![g] =
              LET f == [@ EXCEPT !.reply = r,
                         !.calls = Append(@, <<"FetchIssue", ensure[g].identifier>>)]
              IN  IF r.err # NoErr
                  THEN [f EXCEPT !.pc = "done", !.err = Wrap("fetch issue", r.err)]
                  ELSE IF r.issue = Nil
                  THEN [f EXCEPT !.pc = "done", !.err = NilError]
                  ELSE IF HasLabel(r.issue, "public")
                  THEN [f EXCEPT !.pc = "done", !.err = NilError]
                  ELSE [f EXCEPT !.pc = "resolve"]]
    /\ UNCHANGED <<githubVars, frontVars, now, remote, remoteLabel, cacheVars, labelOnce, labelID,
                   labelErr, started, labelFetches, labelReply, observed>>

\* ResolveBegin as an unsynchronised lazy initialisation: a caller that
\* finds the resolution not finished runs it.
ResolveBeginRacy(g) ==
    /\ ensure[g].pc = "resolve"
    /\ labelOnce \in {"fresh", "running"}
    /\ labelOnce' = "running"
    /\ ensure' = [ensure EXCEPT ![g] = [@ EXCEPT !.pc = "once"]]
    /\ UNCHANGED <<githubVars, frontVars, now, remote, remoteLabel, cacheVars, labelID, labelErr,
                   started, labelFetches, labelReply, observed>>

\* ResolveBegin that runs the resolution again after a failed one.
ResolveBeginRetryOnError(g) ==
    /\ ensure[g].pc = "resolve"
    /\ labelOnce = "fresh" \/ (labelOnce = "done" /\ labelErr # NoErr)
    /\ labelOnce' = "running"
    /\ ensure' = [ensure EXCEPT ![g] = [@ EXCEPT !.pc = "once"]]
    /\ UNCHANGED <<githubVars, frontVars, now, remote, remoteLabel, cacheVars, labelID, labelErr,
                   started, labelFetches, labelReply, observed>>

\* resolveLabelID: l.labelOnce.Do(...) entered by the first caller; the
\* others block in Do until it is done.
ResolveBegin(g) ==
    /\ ensure[g].pc = "resolve"
    /\ labelOnce = "fresh"
    /\ labelOnce' = "running"
    /\ ensure' = [ensure EXCEPT ![g] = [@ EXCEPT !.pc = "once"]]
    /\ UNCHANGED <<githubVars, frontVars, now, remote, remoteLabel, cacheVars, labelID, labelErr,
                   started, labelFetches, labelReply, observed>>

\* ResolveOutcome without the empty-ID test.
ResolveOutcomeNoCheck(r) == [labelID |-> r.id, labelErr |-> r.err]

\* What the function given to Do leaves in (labelID, labelErr) for the reply
\* r of FetchLabelByName: an empty ID without error becomes an error.
ResolveOutcome(r) ==
    [labelID |-> r.id,
     labelErr |-> IF r.err = NoErr /\ r.id = "" THEN LabelNotFound ELSE r.err]

\* The function given to Do: l.labelID, l.labelErr =
\* l.client.FetchLabelByName(ctx, l.teamKey, "public"), then Do completes.
OnceFetchLabel(g) ==
    /\ ensure[g].pc = "once"
    /\ \E r \in FetchLabelByName(teamKey, "public") :
          /\ labelID' = ResolveOutcome(r).labelID
          /\ labelErr' = ResolveOutcome(r).labelErr
          /\ labelReply' = r
    /\ labelFetches' = labelFetches + 1
    /\ labelOnce' = "done"
    /\ ensure' = [ensure EXCEPT ![g] =
          [@ EXCEPT !.pc = "resolve",
                    !.calls = Append(@, <<"FetchLabelByName", teamKey, "public">>)]]
    /\ UNCHANGED <<githubVars, frontVars, now, remote, remoteLabel, cacheVars, started, observed>>

\* return l.labelID, l.labelErr once Do has returned, and
\* if err != nil { return err } in EnsurePublicLabel.
ResolveReturn(g) ==
    /\ ensure[g].pc = "resolve"
    /\ labelOnce = "done"
    /\ observed' = observed \cup {<<labelID, labelErr>>}
    /\ ensure' = [ensure EXCEPT ![g] =
          IF labelErr # NoErr
          THEN [@ EXCEPT !.pc = "done", !.labelID = labelID,
                         !.err = Wrap("", labelErr)]
          ELSE [@ EXCEPT !.pc = "add", !.labelID = labelID]]
    /\ UNCHANGED <<githubVars, frontVars, now, remote, remoteLabel, cacheVars, labelOnce, labelID,
                   labelErr, started, labelFetches, labelReply>>

\* EnsureAddLabel that hands AddLabel the identifier instead of issue.ID.
EnsureAddLabelByIdentifier(g) ==
    /\ ensure[g].pc = "add"
    /\ \E r \in AddLabel(ensure[g].identifier, ensure[g].labelID) :
          /\ remote' = r.remote
          /\ ensure' = [ensure EXCEPT ![g] =
                [@ EXCEPT !.pc = "done", !.addErr = r.err,
                          !.calls = Append(@, <<"AddLabel", ensure[g].identifier,
                                                ensure[g].labelID>>),
                          !.err = IF r.err # NoErr THEN Wrap("add label", r.err)
                                  ELSE NilError]]
    /\ UNCHANGED <<githubVars, frontVars, now, remoteLabel, cacheVars, labelOnce, labelID, labelErr,
                   started, labelFetches, labelReply, observed>>

\* EnsureAddLabel that calls AddLabel again after an error, once.
EnsureAddLabelRetry(g) ==
    /\ ensure[g].pc = "add"
    /\ \E r \in AddLabel(ensure[g].reply.issue.ID, ensure[g].labelID) :
          /\ remote' = r.remote
          /\ ensure' = [ensure EXCEPT ![g] =
                [@ EXCEPT !.pc = IF r.err # NoErr /\ ensure[g].addErr = "none"
                                 THEN "add" ELSE "done",
                          !.addErr = r.err,
                          !.calls = Append(@, <<"AddLabel", ensure[g].reply.issue.ID,
                                                ensure[g].labelID>>),
                          !.err = IF r.err # NoErr THEN Wrap("add label", r.err)
                                  ELSE NilError]]
    /\ UNCHANGED <<githubVars, frontVars, now, remoteLabel, cacheVars, labelOnce, labelID, labelErr,
                   started, labelFetches, labelReply, observed>>

\* EnsureAddLabel that looks at the tracker again and leaves an issue alone
\* that carries "public" by now.
EnsureAddLabelUnlessLabelled(g) ==
    /\ ensure[g].pc = "add"
    /\ IF /\ remote[ensure[g].identifier] # Nil
          /\ HasLabel(remote[ensure[g].identifier], "public")
       THEN /\ remote' = remote
            /\ ensure' = [ensure EXCEPT ![g] = [@ EXCEPT !.pc = "done", !.err = NilError]]
       ELSE \E r \in AddLabel(ensure[g].reply.issue.ID, ensure[g].labelID) :
              /\ remote' = r.remote
              /\ ensure' = [ensure EXCEPT ![g] =
                    [@ EXCEPT !.pc = "done", !.addErr = r.err,
                              !.calls = Append(@, <<"AddLabel", ensure[g].reply.issue.ID,
                                                    ensure[g].labelID>>),
                              !.err = IF r.err # NoErr THEN Wrap("add label", r.err)
                                      ELSE NilError]]
    /\ UNCHANGED <<githubVars, frontVars, now, remoteLabel, cacheVars, labelOnce, labelID, labelErr,
                   started, labelFetches, labelReply, observed>>

\* l.client.AddLabel(ctx, issue.ID, labelID), its error wrapped, else nil.
EnsureAddLabel(g) ==
    /\ ensure[g].pc = "add"
    /\ \E r \in AddLabel(ensure[g].reply.issue.ID, ensure[g].labelID) :
          /\ remote' = r.remote
          /\ ensure' = [ensure EXCEPT ![g] =
                [@ EXCEPT !.pc = "done", !.addErr = r.err,
                          !.calls = Append(@, <<"AddLabel", ensure[g].reply.issue.ID,
                                                ensure[g].labelID>>),
                          !.err = IF r.err # NoErr THEN Wrap("add label", r.err)
                                  ELSE NilError]]
    /\ UNCHANGED <<githubVars, frontVars, now, remoteLabel, cacheVars, labelOnce, labelID, labelErr,
                   started, labelFetches, labelReply, observed>>

\* The team's "public" label is created or deleted in the tracker.
RemoteLabelChange ==
    /\ remoteLabel' = IF remoteLabel = "" THEN LabelUUID ELSE ""
    /\ UNCHANGED <<githubVars, frontVars, now, remote, cacheVars, labelerVars>>

(* ------------------------ GitHub: text scanning ------------------------ *)
\* A text is a sequence of one-character strings; "" is the empty sequence.
UpperLetters ==
    {"A", "B", "C", "D", "E", "F", "G", "H", "I", "J", "K", "L", "M",
     "N", "O", "P", "Q", "R", "S", "T", "U", "V", "W", "X", "Y", "Z"}
LowerLetters ==
    {"a", "b", "c", "d", "e", "f", "g", "h", "i", "j", "k", "l", "m",
     "n", "o", "p", "q", "r", "s", "t", "u", "v", "w", "x", "y", "z"}
DecimalDigits == {"0", "1", "2", "3", "4", "5", "6", "7", "8", "9"}

\* A Go slice of strings: nil, or a (possibly empty) list of elements.
NilSlice == [isNil |-> TRUE, elems |-> <<>>]
Slice(s) == [isNil |-> FALSE, elems |-> s]
\* append(s, x): the result is never nil.
GoAppend(s, x) == Slice(Append(s.elems, x))

\* strings.HasPrefix
HasPrefix(s, prefix) ==
    /\ Len(s) >= Len(prefix)
    /\ SubSeq(s, 1, Len(prefix)) = prefix

\* The regexp class \w, which decides \b.
IsWordCharNoUnderscore(c) == c \in UpperLetters \cup LowerLetters \cup DecimalDigits
IsWordChar(c) == c \in UpperLetters \cup LowerLetters \cup DecimalDigits \cup {"_"}

\* \b at the gap in front of position i (i = Len(text) + 1 is the end):
\* a word character on exactly one side.
WordBoundary(text, i) ==
    LET before == i > 1 /\ IsWordChar(text[i - 1])
        after == i <= Len(text) /\ IsWordChar(text[i])
    IN  before # after

\* The last position of the longest run of class characters that starts
\* at position i; i - 1 when there is none.
RECURSIVE RunEnd(_, _, _)
RunEnd(text, i, class) ==
    IF i <= Len(text) /\ text[i] \in class
    THEN RunEnd(text, i + 1, class)
    ELSE i - 1

\* issuePattern, \b([A-Z]+-\d+)\b, tried at position i: the last position
\* of the match, 0 when there is none. Giving back letters never helps (the
\* next character is a letter, not "-"), nor giving back digits (the gap is
\* then between two digits, not a \b), so the longest runs decide.
issuePattern(text, i) ==
    LET l == RunEnd(text, i, UpperLetters)
        d == IF l >= i /\ l < Len(text) /\ text[l + 1] = "-"
             THEN RunEnd(text, l + 2, DecimalDigits)
             ELSE 0
    IN  IF WordBoundary(text, i) /\ l >= i /\ d >= l + 2
           /\ WordBoundary(text, d + 1)
        THEN d
        ELSE 0

\* issuePattern.FindAllString(text, -1) from position i on: the leftmost
\* matches, none overlapping another.
RECURSIVE FindAllString(_, _)
FindAllString(text, i) ==
    IF i > Len(text) THEN <<>>
    ELSE LET e == issuePattern(text, i)
         IN  IF e > 0
             THEN <<SubSeq(text, i, e)>> \o FindAllString(text, e + 1)
             ELSE FindAllString(text, i + 1)

\* The loop of ScanIdentifiers over the matches, with its seen map.
RECURSIVE UniqueMatches(_, _, _)
UniqueMatches(matches, seen, unique) ==
    IF matches = <<>> THEN unique
    ELSE IF Head(matches) \in seen
         THEN UniqueMatches(Tail(matches), seen, unique)
         ELSE UniqueMatches(Tail(matches), seen \cup {Head(matches)},
                            GoAppend(unique, Head(matches)))

ScanIdentifiers(text) == UniqueMatches(FindAllString(text, 1), {}, NilSlice)

\* The texts a ScanIdentifiers call is given: up to MaxPieces pieces, one
\* after another.
Pieces ==
    {<<"A", "-", "1">>, <<"B", "-", "2">>, <<"a", "-", "1">>,
     <<"A", "-", "1", " ">>, <<"B", "-", "2", " ">>,
     <<" ">>, <<"_">>, <<"-">>, <<"1">>, <<"A">>}

RECURSIVE Flatten(_)
Flatten(ss) == IF ss = <<>> THEN <<>> ELSE Head(ss) \o Flatten(Tail(ss))

ScanTexts == {Flatten(ss) : ss \in UNION {[1..n -> Pieces] : n \in 0..MaxPieces}}

IdleScan == [pc |-> "idle", text |-> <<>>, result |-> NilSlice]

\* ScanIdentifiers(text) is called and returns.
ScanCall ==
    /\ scan.pc = "called"
    /\ scan' = [scan EXCEPT !.pc = "returned",
                            !.result = ScanIdentifiers(scan.text)]
    /\ UNCHANGED <<now, remote, remoteLabel, cacheVars, labelerVars, hook, frontVars>>

(* ------------------------ GitHub: the webhook -------------------------- *)
maxBodySize == 1048576

\* WebhookHandler.secret; senders may sign with "other-secret" instead.
secret == "webhook-secret"

\* WebhookHandler.teamKey as configured: upper, lower or mixed case.
TeamKeys == {<<"A">>, <<"a">>, <<"a", "B">>}

\* What a Labeler's EnsurePublicLabel returns.
LabelerErrs == {NoErr, "labeler error"}

LowerSeq ==
    <<"a", "b", "c", "d", "e", "f", "g", "h", "i", "j", "k", "l", "m",
      "n", "o", "p", "q", "r", "s", "t", "u", "v", "w", "x", "y", "z">>
UpperSeq ==
    <<"A", "B", "C", "D", "E", "F", "G", "H", "I", "J", "K", "L", "M",
      "N", "O", "P", "Q", "R", "S", "T", "U", "V", "W", "X", "Y", "Z">>

\* strings.ToUpper
ToUpper(s) ==
    [i \in 1..Len(s) |->
        IF s[i] \in LowerLetters
        THEN UpperSeq[CHOOSE j \in DOMAIN LowerSeq : LowerSeq[j] = s[i]]
        ELSE s[i]]

\* The prefix ServeHTTP filters identifiers by.
TeamPrefixNoUpper(key) == key \o <<"-">>
TeamPrefix(key) == ToUpper(key) \o <<"-">>

\* A member of a JSON document as json.Unmarshal meets it: "absent" (no
\* such key: the field keeps its zero value), "present", or "mistyped" (a
\* value the field cannot hold somewhere inside: Unmarshal reports an error
\* and the field holds what was decoded around it).
NoObject == [kind |-> "absent", title |-> <<>>, body |-> <<>>]
Object(kind, title, body) == [kind |-> kind, title |-> title, body |-> body]
NoList == [kind |-> "absent", messages |-> <<>>]
List(kind, messages) == [kind |-> kind, messages |-> messages]

\* Request bodies: "not json", {}, {"commits": []}, a document carrying
\* every member the extractors read, and one whose members are mistyped.
GarbageDoc ==
    [valid |-> FALSE, commits |-> NoList, pull_request |-> NoObject,
     issue |-> NoObject, comment |-> NoObject, review |-> NoObject]
EmptyObject == [GarbageDoc EXCEPT !.valid = TRUE]
NoCommitsDoc == [EmptyObject EXCEPT !.commits = List("present", <<>>)]
RichDoc ==
    [valid |-> TRUE,
     commits |-> List("present",
        << <<"A", "-", "1", " ", "B", "-", "2">>,
           <<"A", "-", "2", " ", "A", "-", "1">> >>),
     pull_request |-> Object("present",
        <<"A", "-", "1">>, <<"2", " ", "A", "B", "-", "3">>),
     issue |-> Object("present",
        <<"B", "-", "2", " ", "A", "-", "2">>,
        <<"A", "-", "2", " ", "a", "-", "1", " ", "A", "-", "1">>),
     comment |-> Object("present",
        <<>>, <<"A", "B", "-", "3", " ", "A", "-", "1">>),
     review |-> Object("present", <<>>, <<"A", "-", "2">>)]
MistypedDoc ==
    [valid |-> TRUE,
     commits |-> List("mistyped", << <<"A", "-", "1">>, <<>> >>),
     pull_request |-> Object("mistyped", <<"A", "-", "1">>, <<>>),
     issue |-> Object("mistyped", <<>>, <<"A", "-", "2">>),
     comment |-> Object("mistyped", <<>>, <<"A", "-", "1">>),
     review |-> Object("mistyped", <<>>, <<"A", "-", "2">>)]

\* A body on the wire: size bytes, the first docSize of them the document
\* and the rest white space after it.
Body(doc, docSize, size) == [doc |-> doc, docSize |-> docSize, size |-> size]
NoBody == Body(GarbageDoc, 0, 0)
Bodies ==
    << Body(RichDoc, 300, 300),
       Body(EmptyObject, 2, 2),
       Body(NoCommitsDoc, 14, 14),
       Body(MistypedDoc, 120, 120),
       Body(GarbageDoc, 8, 8),
       Body(RichDoc, 300, maxBodySize),
       Body(RichDoc, 300, maxBodySize + 1),
       Body(RichDoc, maxBodySize + 1, maxBodySize + 1),
       Body([RichDoc EXCEPT !.valid = FALSE], maxBodySize, maxBodySize) >>

\* io.ReadAll(io.LimitReader(r.Body, limit)): the first limit bytes, without
\* error. A document cut short is no JSON any more; cut white space is.
LimitReader(body, limit) ==
    IF body.size <= limit THEN body
    ELSE IF body.docSize <= limit THEN Body(body.doc, body.docSize, limit)
    ELSE Body([body.doc EXCEPT !.valid = FALSE], limit, limit)

\* hmac.New(sha256.New, key) over body: a digest that differs when the key
\* or the bytes differ, as a list of bytes.
hmacSum(key, body) ==
    << IF key = secret THEN 171 ELSE 205,
       CHOOSE i \in DOMAIN Bodies : Bodies[i] = body >>

HexDigits ==
    <<"0", "1", "2", "3", "4", "5", "6", "7", "8", "9",
      "a", "b", "c", "d", "e", "f">>

\* hex.EncodeToString
RECURSIVE EncodeToString(_)
EncodeToString(bytes) ==
    IF bytes = <<>> THEN <<>>
    ELSE <<HexDigits[(Head(bytes) \div 16) + 1], HexDigits[(Head(bytes) % 16) + 1]>>
         \o EncodeToString(Tail(bytes))

\* The value of one hexadecimal digit, either case; -1 for another character.
FromHexChar(c) ==
    IF \E j \in DOMAIN HexDigits : HexDigits[j] = c \/ ToUpper(<<HexDigits[j]>>) = <<c>>
    THEN (CHOOSE j \in DOMAIN HexDigits :
              HexDigits[j] = c \/ ToUpper(<<HexDigits[j]>>) = <<c>>) - 1
    ELSE -1

\* hex.DecodeString: an error for an odd length or a character that is no
\* hexadecimal digit, else the bytes.
DecodeString(s) ==
    IF Len(s) % 2 = 1 \/ \E i \in DOMAIN s : FromHexChar(s[i]) < 0
    THEN [err |-> TRUE, bytes |-> <<>>]
    ELSE [err |-> FALSE,
          bytes |-> [i \in 1..(Len(s) \div 2) |->
                        16 * FromHexChar(s[2 * i - 1]) + FromHexChar(s[2 * i])]]

Sha256Prefix == <<"s", "h", "a", "2", "5", "6", "=">>

\* WebhookHandler.verifySignature
verifySignatureAllowsMissing(body, signature) ==
    \/ signature = <<>>
    \/ /\ HasPrefix(signature, Sha256Prefix)
       /\ ~DecodeString(SubSeq(signature, Len(Sha256Prefix) + 1, Len(signature))).err
       /\ DecodeString(SubSeq(signature, Len(Sha256Prefix) + 1, Len(signature))).bytes
             = hmacSum(secret, body)
verifySignature(body, signature) ==
    /\ HasPrefix(signature, Sha256Prefix)
    /\ LET sig == DecodeString(SubSeq(signature, Len(Sha256Prefix) + 1, Len(signature)))
       IN  /\ ~sig.err
           /\ sig.bytes = hmacSum(secret, body)

\* json.Unmarshal(body, &payload) for a payload with the one member: whether
\* it reports an error, and what the member holds afterwards.
Unmarshal(body, member) ==
    IF ~body.doc.valid
    THEN [err |-> TRUE, value |-> IF member = "commits" THEN NoList ELSE NoObject]
    ELSE [err |-> body.doc[member].kind = "mistyped", value |-> body.doc[member]]

extractPushTextsIgnoreError(body) == Slice(Unmarshal(body, "commits").value.messages)
extractPushTexts(body) ==
    LET payload == Unmarshal(body, "commits")
    IN  IF payload.err THEN NilSlice ELSE Slice(payload.value.messages)

extractPullRequestTexts(body) ==
    LET payload == Unmarshal(body, "pull_request")
    IN  IF payload.err THEN NilSlice
        ELSE Slice(<<payload.value.title, payload.value.body>>)

extractIssueTexts(body) ==
    LET payload == Unmarshal(body, "issue")
    IN  IF payload.err THEN NilSlice
        ELSE Slice(<<payload.value.title, payload.value.body>>)

extractIssueCommentTexts(body) ==
    LET payload == Unmarshal(body, "comment")
    IN  IF payload.err THEN NilSlice ELSE Slice(<<payload.value.body>>)

extractPRReviewTexts(body) ==
    LET payload == Unmarshal(body, "review")
    IN  IF payload.err THEN NilSlice ELSE Slice(<<payload.value.body>>)

extractPRReviewCommentTexts(body) ==
    LET payload == Unmarshal(body, "comment")
    IN  IF payload.err THEN NilSlice ELSE Slice(<<payload.value.body>>)

extractTextsNoReviewComment(eventType, body) ==
    CASE eventType = "push" -> extractPushTexts(body)
      [] eventType = "pull_request" -> extractPullRequestTexts(body)
      [] eventType = "issues" -> extractIssueTexts(body)
      [] eventType = "issue_comment" -> extractIssueCommentTexts(body)
      [] eventType = "pull_request_review" -> extractPRReviewTexts(body)
      [] OTHER -> NilSlice
extractTexts(eventType, body) ==
    CASE eventType = "push" -> extractPushTexts(body)
      [] eventType = "pull_request" -> extractPullRequestTexts(body)
      [] eventType = "issues" -> extractIssueTexts(body)
      [] eventType = "issue_comment" -> extractIssueCommentTexts(body)
      [] eventType = "pull_request_review" -> extractPRReviewTexts(body)
      [] eventType = "pull_request_review_comment" -> extractPRReviewCommentTexts(body)
      [] OTHER -> NilSlice

\* The strings.Builder of ServeHTTP: every text, each followed by "\n".
RECURSIVE AllTextNoNewline(_)
AllTextNoNewline(texts) ==
    IF texts = <<>> THEN <<>> ELSE Head(texts) \o AllTextNoNewline(Tail(texts))
RECURSIVE AllText(_)
AllText(texts) ==
    IF texts = <<>> THEN <<>> ELSE Head(texts) \o <<"\n">> \o AllText(Tail(texts))

\* The X-GitHub-Event values requests carry: the six handled, one that is
\* not, and none.
EventTypes ==
    {"push", "pull_request", "issues", "issue_comment", "pull_request_review",
     "pull_request_review_comment", "workflow_run", ""}

\* The X-Hub-Signature-256 values a request with the body carries: none;
\* the digest of the body under the secret, in lower and upper case
\* hexadecimal digits; that digest without prefix, under another prefix, cut
\* to an odd length; "sha256=invalid"; "sha256="; the digest under another
\* key; the digest of another body; the digest of what the handler reads
\* of the body.
Signatures(body) ==
    LET digest == EncodeToString(hmacSum(secret, body))
    IN  { <<>>,
          Sha256Prefix \o digest,
          Sha256Prefix \o ToUpper(digest),
          digest,
          <<"s", "h", "a", "1", "=">> \o digest,
          Sha256Prefix \o SubSeq(digest, 1, Len(digest) - 1),
          Sha256Prefix \o <<"i", "n", "v", "a", "l", "i", "d">>,
          Sha256Prefix,
          Sha256Prefix \o EncodeToString(hmacSum("other-secret", body)),
          Sha256Prefix \o EncodeToString(hmacSum(secret, Bodies[5])),
          Sha256Prefix \o EncodeToString(hmacSum(secret, LimitReader(body, maxBodySize))) }

\* The requests: readErr says that reading the body fails on the connection.
Requests ==
    UNION {{[eventType |-> e, signature |-> s, body |-> Bodies[b], readErr |-> r] :
               e \in EventTypes, s \in Signatures(Bodies[b]), r \in BOOLEAN} :
           b \in DOMAIN Bodies}

NoRequest == [eventType |-> "", signature |-> <<>>, body |-> NoBody, readErr |-> FALSE]

\* NewWebhookHandler(secret, teamKey, labeler): no request in hand.
IdleHook(key) ==
    [teamKey |-> key, pc |-> "idle", req |-> NoRequest, body |-> NoBody,
     verified |-> "no", texts |-> NilSlice, identifiers |-> NilSlice, i |-> 0,
     attempts |-> <<>>, errs |-> <<>>, status |-> 0]

hookRest == <<now, remote, remoteLabel, cacheVars, labelerVars, scan, frontVars>>

\* The server hands ServeHTTP a request.
ServeHTTP(req) ==
    /\ hook.pc = "idle"
    /\ hook' = [hook EXCEPT !.pc = "read", !.req = req]
    /\ UNCHANGED hookRest

\* io.ReadAll(io.LimitReader(r.Body, maxBodySize)), and the 400 on error.
ReadBody ==
    /\ hook.pc = "read"
    /\ hook' = IF hook.req.readErr
               THEN [hook EXCEPT !.pc = "done", !.status = 400]
               ELSE [hook EXCEPT !.pc = "verify",
                                 !.body = LimitReader(hook.req.body, maxBodySize)]
    /\ UNCHANGED hookRest

\* h.verifySignature(body, header), and the 403 when it fails.
VerifySignature ==
    /\ hook.pc = "verify"
    /\ hook' = IF verifySignature(hook.body, hook.req.signature)
               THEN [hook EXCEPT !.pc = "extract", !.verified = "accepted"]
               ELSE [hook EXCEPT !.pc = "done", !.verified = "rejected",
                                 !.status = 403]
    /\ UNCHANGED hookRest

\* extractTexts, the strings.Builder and ScanIdentifiers.
ExtractAndScan ==
    /\ hook.pc = "extract"
    /\ LET texts == extractTexts(hook.req.eventType, hook.body)
       IN  hook' = [hook EXCEPT !.pc = "label", !.texts = texts,
                       !.identifiers = ScanIdentifiers(AllText(texts.elems)),
                       !.i = 1]
    /\ UNCHANGED hookRest

\* One turn of the loop over identifiers: skip another team's identifier,
\* else call EnsurePublicLabel and log its error, if any.
LabelStepStopOnError ==
    /\ hook.pc = "label"
    /\ hook.i <= Len(hook.identifiers.elems)
    /\ LET id == hook.identifiers.elems[hook.i]
       IN  IF ~HasPrefix(id, TeamPrefix(hook.teamKey))
           THEN hook' = [hook EXCEPT !.i = hook.i + 1]
           ELSE \E err \in LabelerErrs :
                   hook' = [hook EXCEPT
                               !.i = IF err = NoErr THEN hook.i + 1
                                     ELSE Len(hook.identifiers.elems) + 1,
                               !.attempts = Append(hook.attempts, id),
                               !.errs = Append(hook.errs, err)]
    /\ UNCHANGED hookRest
LabelStep ==
    /\ hook.pc = "label"
    /\ hook.i <= Len(hook.identifiers.elems)
    /\ LET id == hook.identifiers.elems[hook.i]
       IN  IF ~HasPrefix(id, TeamPrefix(hook.teamKey))
           THEN hook' = [hook EXCEPT !.i = hook.i + 1]
           ELSE \E err \in LabelerErrs :
                   hook' = [hook EXCEPT !.i = hook.i + 1,
                                        !.attempts = Append(hook.attempts, id),
                                        !.errs = Append(hook.errs, err)]
    /\ UNCHANGED hookRest

\* w.WriteHeader(http.StatusOK) after the loop.
RespondErrorStatus ==
    /\ hook.pc = "label"
    /\ hook.i > Len(hook.identifiers.elems)
    /\ hook' = [hook EXCEPT !.pc = "done",
                   !.status = IF \E j \in DOMAIN hook.errs : hook.errs[j] # NoErr
                              THEN 500 ELSE 200]
    /\ UNCHANGED hookRest
Respond ==
    /\ hook.pc = "label"
    /\ hook.i > Len(hook.identifiers.elems)
    /\ hook' = [hook EXCEPT !.pc = "done", !.status = 200]
    /\ UNCHANGED hookRest

\* ServeHTTP has returned and the response is on its way: the handler is
\* ready for the next request.
HandlerReturn ==
    /\ hook.pc = "done"
    /\ hook' = IdleHook(hook.teamKey)
    /\ UNCHANGED hookRest

(* --------------------- GitHub: the repository scan --------------------- *)
\* A URL or a header is a sequence of symbols: single characters, and
\* pieces of a URL that no operation here looks into.

\* The scanners of ScanRepo, in order, and the path of each listing.
scanners == <<"pull requests", "issues", "issue comments", "review comments">>
SourcePath(source) ==
    CASE source = "pull requests" -> <<"/pulls", "?", "state=all">>
      [] source = "issues" -> <<"/issues", "?", "state=all">>
      [] source = "issue comments" -> <<"/issues/comments">>
      [] source = "review comments" -> <<"/pulls/comments">>

\* RepoScanner.repoURL
repoURL(path) == <<"https://api.github.com", "/repos/", "org", "/", "repo">> \o path

\* strings.Contains for a piece that is one symbol.
Contains(s, symbol) == \E i \in DOMAIN s : s[i] = symbol

\* The head of paginate: per_page=100 is added unless the URL has one.
FirstPageURL(url) ==
    IF Contains(url, "per_page=") THEN url
    ELSE url \o <<IF Contains(url, "?") THEN "&" ELSE "?", "per_page=", "100">>

\* linkNextRe, <([^>]+)>;\s*rel="next", tried at position i of the header:
\* the positions of the group, <<0, 0>> when there is no match. [^>]+ ends
\* at the first ">" and \s* at the first symbol that is no white space.
\* (linkAnyRe is the pattern without the name of the relation.)
RelNext == <<"r", "e", "l", "=", "\"", "n", "e", "x", "t", "\"">>
WhiteSpace == {" ", "\t", "\n", "\r", "\f"}
linkAnyRe(header, i) ==
    LET e == RunEnd(header, i + 1, {header[j] : j \in DOMAIN header} \ {">"})
        w == RunEnd(header, e + 3, WhiteSpace)
    IN  IF /\ header[i] = "<" /\ e >= i + 1
           /\ e + 2 <= Len(header) /\ header[e + 1] = ">" /\ header[e + 2] = ";"
           /\ w + 5 <= Len(header)
           /\ SubSeq(header, w + 1, w + 5) = SubSeq(RelNext, 1, 5)
        THEN <<i + 1, e>>
        ELSE <<0, 0>>
linkNextRe(header, i) ==
    LET e == RunEnd(header, i + 1, {header[j] : j \in DOMAIN header} \ {">"})
        w == RunEnd(header, e + 3, WhiteSpace)
    IN  IF /\ header[i] = "<" /\ e >= i + 1
           /\ e + 2 <= Len(header) /\ header[e + 1] = ">" /\ header[e + 2] = ";"
           /\ w + Len(RelNext) <= Len(header)
           /\ SubSeq(header, w + 1, w + Len(RelNext)) = RelNext
        THEN <<i + 1, e>>
        ELSE <<0, 0>>

\* FindStringSubmatch: the group of the leftmost match, from position i on.
RECURSIVE FindStringSubmatch(_, _)
FindStringSubmatch(header, i) ==
    IF i > Len(header) THEN <<>>
    ELSE IF linkNextRe(header, i) # <<0, 0>>
         THEN SubSeq(header, linkNextRe(header, i)[1], linkNextRe(header, i)[2])
         ELSE FindStringSubmatch(header, i + 1)

\* nextPageURL: "" when the header has no match.
nextPageURL(linkHeader) == FindStringSubmatch(linkHeader, 1)

\* The remote: the listing a URL names and the page of it (the first when
\* the URL names none).
Numerals == <<"1", "2", "3", "4", "5", "6", "7", "8", "9">>
SourceOf(url) ==
    CHOOSE source \in {scanners[i] : i \in DOMAIN scanners} :
        SubSeq(url, 6, 5 + Len(SourcePath(source))) = SourcePath(source)
PageOf(url) ==
    IF \E i \in DOMAIN url : url[i] = "page="
    THEN CHOOSE n \in DOMAIN Numerals :
            Numerals[n] = url[(CHOOSE i \in DOMAIN url : url[i] = "page=") + 1]
    ELSE 1
PageURL(source, page) ==
    repoURL(SourcePath(source))
        \o <<IF Contains(SourcePath(source), "?") THEN "&" ELSE "?",
             "page=", Numerals[page], "&", "per_page=", "100">>

\* The Link header of a response with the relations, as GitHub writes it.
RECURSIVE LinkHeader(_)
LinkHeader(rels) ==
    IF rels = <<>> THEN <<>>
    ELSE <<"<">> \o Head(rels).url \o <<">", ";", " ", "r", "e", "l", "=", "\"">>
         \o Head(rels).rel \o <<"\"">>
         \o (IF Len(rels) > 1 THEN <<",", " ">> ELSE <<>>)
         \o LinkHeader(Tail(rels))

PrevRel(source, page) ==
    [url |-> PageURL(source, page - 1), rel |-> <<"p", "r", "e", "v">>]
NextRel(source, page) ==
    [url |-> PageURL(source, page + 1), rel |-> <<"n", "e", "x", "t">>]

\* The relations the remote may send with a page: none or next on the first
\* page, prev with or without next on a later one; a listing has at most
\* MaxPages pages.
RelChoices(source, page) ==
    (IF page = 1 THEN {<<>>} ELSE {<<PrevRel(source, page)>>})
        \cup (IF page >= MaxPages THEN {}
              ELSE IF page = 1 THEN {<<NextRel(source, page)>>}
              ELSE {<<PrevRel(source, page), NextRel(source, page)>>})

\* The items of the remote's listings, page by page, and the output of
\* git log.
Item(title, body) == [title |-> title, body |-> body]
PageItems(source, page) ==
    CASE source = "pull requests" /\ page = 1 ->
            <<Item(<<"A", "-", "4">>, <<"A", "-", "1">>)>>
      [] source = "pull requests" ->
            <<Item(<<"B", "-", "9">>, <<"A", "-", "5">>), Item(<<"A", "-", "4">>, <<>>)>>
      [] source = "issues" /\ page = 1 ->
            <<Item(<<>>, <<"A", "-", "3", " ", "A", "-", "6">>)>>
      [] source = "issues" ->
            <<Item(<<"A", "-", "7">>, <<"A", "-", "4">>)>>
      [] source = "issue comments" /\ page = 1 ->
            <<Item(<<>>, <<"A", "-", "6", " ", "A", "B", "-", "1">>)>>
      [] source = "issue comments" ->
            <<Item(<<>>, <<"A", "-", "8">>)>>
      [] source = "review comments" /\ page = 1 ->
            <<Item(<<>>, <<"A", "-", "9", " ", "A", "-", "5">>)>>
      [] source = "review comments" ->
            <<Item(<<>>, <<"a", "-", "1", " ", "A", "-", "2">>)>>
GitLogOutput ==
    <<"A", "-", "1", " ", "B", "-", "2", "\n", "\n", "A", "-", "3", "\n">>

\* What the remote answers a request for the URL: 403, or 200 with a body
\* that is no JSON, or 200 with the page and one of its Link headers.
Response(status, valid, items, rels) ==
    [status |-> status, valid |-> valid, items |-> items, rels |-> rels,
     link |-> LinkHeader(rels)]
Responses(url) ==
    {Response(403, TRUE, <<>>, <<>>), Response(200, FALSE, <<>>, <<>>)}
        \cup {Response(200, TRUE, PageItems(SourceOf(url), PageOf(url)), rels) :
                 rels \in RelChoices(SourceOf(url), PageOf(url))}

\* The Authorization header of a request of paginate.
AuthorizationAlways(token) == [set |-> TRUE, value |-> <<"Bearer ", token>>]
Authorization(token) ==
    IF token # "" THEN [set |-> TRUE, value |-> <<"Bearer ", token>>]
    ELSE [set |-> FALSE, value |-> <<>>]

\* collect in ScanRepo, over the identifiers of one text from position i.
RECURSIVE CollectFrom(_, _, _, _)
CollectFrom(result, ids, i, prefix) ==
    IF i > Len(ids) THEN result
    ELSE IF HasPrefix(ids[i], prefix)
            /\ ~\E j \in DOMAIN result.elems : result.elems[j] = ids[i]
         THEN CollectFrom(GoAppend(result, ids[i]), ids, i + 1, prefix)
         ELSE CollectFrom(result, ids, i + 1, prefix)
collect(result, text, prefix) ==
    CollectFrom(result, ScanIdentifiers(text).elems, 1, prefix)

\* The decode callbacks: collect(Title), collect(Body) for every pull request
\* and issue, collect(Body) for every comment.
RECURSIVE decodeBodyOnly(_, _, _, _)
decodeBodyOnly(result, source, items, prefix) ==
    IF items = <<>> THEN result
    ELSE decodeBodyOnly(collect(result, Head(items).body, prefix),
                        source, Tail(items), prefix)
RECURSIVE decode(_, _, _, _)
decode(result, source, items, prefix) ==
    IF items = <<>> THEN result
    ELSE decode(
            IF source \in {"pull requests", "issues"}
            THEN collect(collect(result, Head(items).title, prefix),
                         Head(items).body, prefix)
            ELSE collect(result, Head(items).body, prefix),
            source, Tail(items), prefix)

\* NewRepoScanner and SetGitDir: no ScanRepo call yet.
IdleBackfill(token, gitDir, key) ==
    [token |-> token, gitDir |-> gitDir, teamKey |-> key, pc |-> "idle",
     src |-> 0, url |-> <<>>, result |-> NilSlice, gitRuns |-> 0,
     gitErr |-> FALSE, log |-> <<>>, ids |-> NilSlice, err |-> ""]

backfillRest == <<now, remote, remoteLabel, cacheVars, labelerVars, githubVars,
                  parse, serve, run>>

\* ScanRepo(ctx, teamKey) begins: with git log when gitDir is set, else
\* with the first scanner.
ScanRepo ==
    /\ backfill.pc = "idle"
    /\ backfill' =
          IF backfill.gitDir # ""
          THEN [backfill EXCEPT !.pc = "git"]
          ELSE [backfill EXCEPT !.pc = "page", !.src = 1,
                   !.url = FirstPageURL(repoURL(SourcePath(scanners[1])))]
    /\ UNCHANGED backfillRest

\* scanGitLog: cmd.Output() gives an error, which ends ScanRepo, or the
\* output, which is collected.
scanGitLogSkipOnError ==
    /\ backfill.pc = "git"
    /\ \E o \in {[err |-> TRUE, out |-> <<>>], [err |-> FALSE, out |-> GitLogOutput]} :
          backfill' =
              [backfill EXCEPT
                  !.gitRuns = @ + 1, !.gitErr = o.err,
                  !.result = IF o.err THEN @
                             ELSE collect(@, o.out, TeamPrefix(backfill.teamKey)),
                  !.pc = "page", !.src = 1,
                  !.url = FirstPageURL(repoURL(SourcePath(scanners[1])))]
    /\ UNCHANGED backfillRest
scanGitLog ==
    /\ backfill.pc = "git"
    /\ \/ backfill' =
             [backfill EXCEPT !.pc = "done", !.gitRuns = @ + 1,
                 !.gitErr = TRUE, !.ids = NilSlice, !.err = "scan git log"]
       \/ backfill' =
             [backfill EXCEPT
                 !.gitRuns = @ + 1,
                 !.result = collect(@, GitLogOutput, TeamPrefix(backfill.teamKey)),
                 !.pc = "page", !.src = 1,
                 !.url = FirstPageURL(repoURL(SourcePath(scanners[1])))]
    /\ UNCHANGED backfillRest

\* The frame after a scanner has returned nil: the next scanner, or
\* return result, nil.
AfterSource(f) ==
    IF f.src < Len(scanners)
    THEN [f EXCEPT !.src = @ + 1,
            !.url = FirstPageURL(repoURL(SourcePath(scanners[f.src + 1])))]
    ELSE [f EXCEPT !.pc = "done", !.url = <<>>, !.ids = f.result, !.err = ""]

\* One turn of the loop of paginate: the request, the status test, decode,
\* and the next URL; an error ends ScanRepo with nil, err.
\* (paginateSkipOnStatus goes on to the next scanner after a status other
\* than 200; paginateFirstPagesOnly never gets an answer for a later page.)
paginateSkipOnStatus ==
    /\ backfill.pc = "page"
    /\ \E resp \in Responses(backfill.url) :
          LET source == scanners[backfill.src]
              f == [backfill EXCEPT
                       !.log = Append(@, [source |-> source, url |-> backfill.url,
                                          auth |-> Authorization(backfill.token),
                                          resp |-> resp])]
              next == nextPageURL(resp.link)
          IN  backfill' =
                  IF resp.status # 200
                  THEN AfterSource(f)
                  ELSE IF ~resp.valid
                  THEN [f EXCEPT !.pc = "done", !.ids = NilSlice,
                                 !.err = "scan " \o source]
                  ELSE LET d == [f EXCEPT !.result =
                                    decode(@, source, resp.items,
                                           TeamPrefix(backfill.teamKey))]
                       IN  IF next # <<>> THEN [d EXCEPT !.url = next]
                           ELSE AfterSource(d)
    /\ UNCHANGED backfillRest
paginateFirstPagesOnly ==
    /\ backfill.pc = "page"
    /\ PageOf(backfill.url) = 1
    /\ \E resp \in Responses(backfill.url) :
          LET source == scanners[backfill.src]
              f == [backfill EXCEPT
                       !.log = Append(@, [source |-> source, url |-> backfill.url,
                                          auth |-> Authorization(backfill.token),
                                          resp |-> resp])]
              next == nextPageURL(resp.link)
          IN  backfill' =
                  IF resp.status # 200 \/ ~resp.valid
                  THEN [f EXCEPT !.pc = "done", !.ids = NilSlice,
                                 !.err = "scan " \o source]
                  ELSE LET d == [f EXCEPT !.result =
                                    decode(@, source, resp.items,
                                           TeamPrefix(backfill.teamKey))]
                       IN  IF next # <<>> THEN [d EXCEPT !.url = next]
                           ELSE AfterSource(d)
    /\ UNCHANGED backfillRest
paginate ==
    /\ backfill.pc = "page"
    /\ \E resp \in Responses(backfill.url) :
          LET source == scanners[backfill.src]
              f == [backfill EXCEPT
                       !.log = Append(@, [source |-> source, url |-> backfill.url,
                                          auth |-> Authorization(backfill.token),
                                          resp |-> resp])]
              next == nextPageURL(resp.link)
          IN  backfill' =
                  IF resp.status # 200 \/ ~resp.valid
                  THEN [f EXCEPT !.pc = "done", !.ids = NilSlice,
                                 !.err = "scan " \o source]
                  ELSE LET d == [f EXCEPT !.result =
                                    decode(@, source, resp.items,
                                           TeamPrefix(backfill.teamKey))]
                       IN  IF next # <<>> THEN [d EXCEPT !.url = next]
                           ELSE AfterSource(d)
    /\ UNCHANGED backfillRest

(* ------------------------ linearapi: identifiers ------------------------ *)

\* The characters ParseIdentifier is called with here.
IdentifierChars == {"M", "-", "5", "0", "+"}

\* strings.SplitN(s, sep, 2): the text before the first separator and the
\* text after it, or the whole text when there is none.
SplitN(s, sep) ==
    IF \E i \in DOMAIN s : s[i] = sep
    THEN LET h == CHOOSE i \in DOMAIN s :
                     s[i] = sep /\ \A j \in 1..(i - 1) : s[j] # sep
         IN  <<SubSeq(s, 1, h - 1), SubSeq(s, h + 1, Len(s))>>
    ELSE <<s>>

\* The loop of strconv.Atoi over the digits: n = n*10 + digit.
RECURSIVE AtoiDigits(_)
AtoiDigits(d) ==
    IF d = <<>> THEN 0
    ELSE AtoiDigits(SubSeq(d, 1, Len(d) - 1)) * 10
         + (CHOOSE n \in 0..9 :
               <<"0", "1", "2", "3", "4", "5", "6", "7", "8", "9">>[n + 1] = d[Len(d)])

\* strconv.Atoi: an optional sign, then one or more decimal digits (the
\* texts here are too short to overflow an int).
Atoi(s) ==
    LET d == IF s # <<>> /\ s[1] \in {"+", "-"} THEN Tail(s) ELSE s
    IN  IF d = <<>> \/ \E i \in DOMAIN d : d[i] \notin DecimalDigits
        THEN [err |-> TRUE, n |-> 0]
        ELSE [err |-> FALSE, n |-> IF s[1] = "-" THEN 0 - AtoiDigits(d) ELSE AtoiDigits(d)]

\* ParseIdentifier(identifier): teamKey, number, err.
ParseIdentifier(identifier) ==
    LET parts == SplitN(identifier, "-")
    IN  IF Len(parts) # 2
        THEN [teamKey |-> <<>>, number |-> 0, err |-> "invalid identifier format"]
        ELSE IF Atoi(parts[2]).err
        THEN [teamKey |-> <<>>, number |-> 0, err |-> "invalid issue number"]
        ELSE [teamKey |-> parts[1], number |-> Atoi(parts[2]).n, err |-> ""]

\* No ParseIdentifier call.
IdleParse == [pc |-> "idle", identifier |-> <<>>, teamKey |-> <<>>, number |-> 0, err |-> ""]

\* The call of ParseIdentifier returns.
ParseCall ==
    /\ parse.pc = "called"
    /\ parse' = [parse EXCEPT
                    !.pc = "done",
                    !.teamKey = ParseIdentifier(parse.identifier).teamKey,
                    !.number = ParseIdentifier(parse.identifier).number,
                    !.err = ParseIdentifier(parse.identifier).err]
    /\ UNCHANGED <<now, remote, remoteLabel, cacheVars, labelerVars, githubVars,
                   backfill, serve, run>>

(* --------------------------- main: GET handler -------------------------- *)

\* identifierPattern, ^KEY-\d+$ for the upper-cased team key: MatchString.
identifierPattern(identifier, key) ==
    /\ HasPrefix(identifier, ToUpper(key) \o <<"-">>)
    /\ Len(identifier) > Len(key) + 1
    /\ \A j \in (Len(key) + 2)..Len(identifier) : identifier[j] \in DecimalDigits

\* The characters of the identifiers the tracker knows, and the identifier
\* with the given characters.
IdentifierText(k) ==
    CASE k = "MIR-1" -> <<"M", "I", "R", "-", "1">>
      [] k = "MIR-2" -> <<"M", "I", "R", "-", "2">>
CacheKey(identifier) == CHOOSE k \in Identifiers : IdentifierText(k) = identifier

\* r.PathValue("identifier") of the requests.
ServePaths ==
    {<<"M", "I", "R", "-", "1">>, <<"m", "i", "r", "-", "1">>,
     <<"M", "i", "r", "-", "2">>,
     <<"A", "B", "C", "-", "1">>, <<"M", "I", "R", "-">>,
     <<"M", "I", "R", "-", "1", "x">>, <<"x", "M", "I", "R", "-", "1">>}

\* No GET /{identifier} request under way. got is what Cache.Get returned,
\* page the template rendered, shown the issue handed to it, at the time
\* the request came in; last records the same of the last request before
\* it that called Cache.Get.
NoResult == [called |-> FALSE, issue |-> Nil, err |-> NoErr, calls |-> 0]
IdleServe(key) ==
    [teamKey |-> key, pc |-> "idle", path |-> <<>>, identifier |-> <<>>,
     got |-> NoResult, status |-> 0, page |-> "", shown |-> Nil, at |-> 0,
     last |-> [path |-> <<>>, at |-> 0, err |-> NoErr, calls |-> 0,
               status |-> 0, page |-> "", shown |-> Nil]]

\* The handler up to the Cache.Get call: the identifier is upper-cased and
\* matched; a mismatch is answered 404 with the not-found page.
\* (ServeRequestNoUpper takes the path as it is, ServeRequestNoPattern
\* hands every identifier to Cache.Get.)
ServeRequestNoUpper(path) ==
    /\ serve.pc = "idle"
    /\ get["g1"].pc = "idle"
    /\ serve' =
          IF ~identifierPattern(path, serve.teamKey)
          THEN [serve EXCEPT
                   !.pc = "done", !.path = path, !.identifier = path,
                   !.at = now, !.status = 404, !.page = "notfound"]
          ELSE [serve EXCEPT
                   !.pc = "get", !.path = path, !.identifier = path, !.at = now]
    /\ UNCHANGED <<now, remote, remoteLabel, cacheVars, labelerVars, githubVars,
                   backfill, parse, run>>
ServeRequestNoPattern(path) ==
    /\ serve.pc = "idle"
    /\ get["g1"].pc = "idle"
    /\ serve' = [serve EXCEPT
                    !.pc = "get", !.path = path, !.identifier = ToUpper(path),
                    !.at = now]
    /\ UNCHANGED <<now, remote, remoteLabel, cacheVars, labelerVars, githubVars,
                   backfill, parse, run>>
ServeRequest(path) ==
    /\ serve.pc = "idle"
    /\ get["g1"].pc = "idle"
    /\ serve' =
          IF ~identifierPattern(ToUpper(path), serve.teamKey)
          THEN [serve EXCEPT
                   !.pc = "done", !.path = path, !.identifier = ToUpper(path),
                   !.at = now, !.status = 404, !.page = "notfound"]
          ELSE [serve EXCEPT
                   !.pc = "get", !.path = path, !.identifier = ToUpper(path),
                   !.at = now]
    /\ UNCHANGED <<now, remote, remoteLabel, cacheVars, labelerVars, githubVars,
                   backfill, parse, run>>

\* The handler after Cache.Get: status, page and the issue handed to the
\* template (the stub page is handed the identifier only).
ServeOutcomeAnyLabel(issue, err) ==
    IF err # NoErr THEN [status |-> 500, page |-> "error", shown |-> Nil]
    ELSE IF issue = Nil THEN [status |-> 404, page |-> "notfound", shown |-> Nil]
    ELSE IF issue.Labels = <<>> THEN [status |-> 200, page |-> "stub", shown |-> Nil]
    ELSE [status |-> 200, page |-> "issue", shown |-> issue]
ServeOutcome(issue, err) ==
    IF err # NoErr THEN [status |-> 500, page |-> "error", shown |-> Nil]
    ELSE IF issue = Nil THEN [status |-> 404, page |-> "notfound", shown |-> Nil]
    ELSE IF ~HasLabel(issue, "public")
    THEN [status |-> 200, page |-> "stub", shown |-> Nil]
    ELSE [status |-> 200, page |-> "issue", shown |-> issue]

\* issueCache.Get has returned to the handler, which responds.
ServeRespond ==
    /\ serve.pc = "get"
    /\ get["g1"].pc = "done"
    /\ serve' = [serve EXCEPT
                    !.pc = "done",
                    !.got = [called |-> TRUE, issue |-> get["g1"].issue,
                             err |-> get["g1"].err, calls |-> get["g1"].calls],
                    !.status = ServeOutcome(get["g1"].issue, get["g1"].err).status,
                    !.page = ServeOutcome(get["g1"].issue, get["g1"].err).page,
                    !.shown = ServeOutcome(get["g1"].issue, get["g1"].err).shown]
    /\ get' = [get EXCEPT !["g1"] = IdleGet]
    /\ UNCHANGED <<now, remote, remoteLabel, entries, labelerVars, githubVars,
                   backfill, parse, run>>

\* The handler returns; the server takes the next request.
ServeReturn ==
    /\ serve.pc = "done"
    /\ serve' = [IdleServe(serve.teamKey) EXCEPT
                    !.last = IF ~serve.got.called THEN serve.last
                             ELSE [path |-> serve.path, at |-> serve.at,
                                   err |-> serve.got.err, calls |-> serve.got.calls,
                                   status |-> serve.status, page |-> serve.page,
                                   shown |-> serve.shown]]
    /\ UNCHANGED <<now, remote, remoteLabel, cacheVars, labelerVars, githubVars,
                   backfill, parse, run>>

(* ----------------------- the backfill command -------------------------- *)
\* What scanner.ScanRepo hands the command: an error, or the identifiers
\* found, each once, in the order of the scan (nil when none was found).
ScanResults ==
    {[ids |-> NilSlice, err |-> "scan failed"], [ids |-> NilSlice, err |-> ""]}
        \cup {[ids |-> Slice(s), err |-> ""] :
                s \in {s \in UNION {[1..n -> Identifiers] : n \in 1..Cardinality(Identifiers)} :
                          \A a, b \in DOMAIN s : a # b => s[a] # s[b]}}

\* The command after flag.Parse and the checks of its environment.  listed
\* is what the dry run printed; attempts are the EnsurePublicLabel calls
\* that returned, each with its error and its remote calls.
IdleRun(apply) ==
    [apply |-> apply, pc |-> "scan", identifiers |-> NilSlice, i |-> 0,
     listed |-> <<>>, attempts |-> <<>>, err |-> ""]

runRest == <<now, remote, remoteLabel, cacheVars, labelerVars, githubVars,
             backfill, parse, serve>>

\* RunScan that goes on to label whatever the flag says.
RunScanApplyAlways ==
    /\ run.pc = "scan"
    /\ \E r \in ScanResults :
          run' = IF r.err # ""
                 THEN [run EXCEPT !.pc = "done", !.err = "scan repo"]
                 ELSE [run EXCEPT !.pc = "label", !.identifiers = r.ids, !.i = 1]
    /\ UNCHANGED runRest

\* scanner.ScanRepo returns: its error ends the command; without -apply
\* the identifiers are printed and the command ends; with -apply the loop
\* over the identifiers begins.
RunScan ==
    /\ run.pc = "scan"
    /\ \E r \in ScanResults :
          run' = IF r.err # ""
                 THEN [run EXCEPT !.pc = "done", !.err = "scan repo"]
                 ELSE IF ~run.apply
                 THEN [run EXCEPT !.pc = "done", !.identifiers = r.ids,
                                  !.listed = r.ids.elems]
                 ELSE [run EXCEPT !.pc = "label", !.identifiers = r.ids, !.i = 1]
    /\ UNCHANGED runRest

\* One turn of the loop calls labeler.EnsurePublicLabel(ctx, id) on the
\* command's goroutine; the i-th call is the labeler's i-th invocation.
RunLabel ==
    /\ run.pc = "label"
    /\ run.i <= Len(run.identifiers.elems)
    /\ started = run.i - 1
    /\ EnsureCall("g1", run.identifiers.elems[run.i])

\* RunLabelReturn that logs the error and goes on, as the webhook does.
RunLabelReturnContinue ==
    /\ run.pc = "label"
    /\ run.i <= Len(run.identifiers.elems)
    /\ started = run.i
    /\ ensure["g1"].pc = "done"
    /\ run' = [run EXCEPT
                  !.attempts = Append(@, [id |-> ensure["g1"].identifier,
                                          err |-> ensure["g1"].err,
                                          calls |-> ensure["g1"].calls]),
                  !.i = @ + 1,
                  !.err = IF ensure["g1"].err # NilError THEN "label" ELSE run.err]
    /\ UNCHANGED runRest

\* EnsurePublicLabel returns to the loop: its error ends the command, else
\* the loop goes to the next identifier.
RunLabelReturn ==
    /\ run.pc = "label"
    /\ run.i <= Len(run.identifiers.elems)
    /\ started = run.i
    /\ ensure["g1"].pc = "done"
    /\ run' = LET f == [run EXCEPT
                          !.attempts = Append(@, [id |-> ensure["g1"].identifier,
                                                  err |-> ensure["g1"].err,
                                                  calls |-> ensure["g1"].calls])]
              IN  IF ensure["g1"].err # NilError
                  THEN [f EXCEPT !.pc = "done", !.err = "label"]
                  ELSE [f EXCEPT !.i = @ + 1]
    /\ UNCHANGED runRest

\* The loop is over: "backfill complete", and run returns nil.
RunReturn ==
    /\ run.pc = "label"
    /\ run.i > Len(run.identifiers.elems)
    /\ run' = [run EXCEPT !.pc = "done"]
    /\ UNCHANGED runRest

(* --------------------------- specifications ---------------------------- *)
\* cache.New and NewPublicLabeler: an empty map, an unused labelOnce.
InitProgram ==
    /\ now = 0
    /\ entries = [k \in Identifiers |-> NoEntry]
    /\ get = [g \in Goroutines |-> IdleGet]
    /\ labelOnce = "fresh"
    /\ labelID = ""
    /\ labelErr = NoErr
    /\ ensure = [g \in Goroutines |-> IdleEnsure]
    /\ started = 0
    /\ labelFetches = 0
    /\ labelReply = NoLabelReply
    /\ observed = {}

\* NewWebhookHandler for team "A", and no ScanIdentifiers call under way.
InitGithub ==
    /\ hook = IdleHook(<<"A">>)
    /\ scan = IdleScan

\* No ScanRepo, ParseIdentifier or GET request under way.
InitFront ==
    /\ backfill = IdleBackfill("", "", <<"A">>)
    /\ parse = IdleParse
    /\ serve = IdleServe(<<"M", "I", "R">>)
    /\ run = IdleRun(FALSE)

\* The cache starts against a tracker without issues (they come and go).
InitCache ==
    /\ InitProgram
    /\ InitGithub
    /\ InitFront
    /\ remote = [k \in Identifiers |-> Nil]
    /\ remoteLabel = LabelUUID

\* The labeler starts against any tracker: each identifier has no issue or
\* an issue with some labels, and the team has a "public" label or not.
InitLabeler ==
    /\ InitProgram
    /\ InitGithub
    /\ InitFront
    /\ remote \in [Identifiers -> UNION {RemoteIssues(k) : k \in Identifiers}]
    /\ \A k \in Identifiers : remote[k] \in RemoteIssues(k)
    /\ remoteLabel \in {"", LabelUUID}

CacheNext ==
    \/ Tick
    \/ RemoteCreateDelete
    \/ \E g \in Goroutines, k \in Identifiers : GetRead(g, k)
    \/ \E g \in Goroutines : GetCheck(g)
    \/ \E g \in Goroutines : GetFetch(g)
    \/ \E g \in Goroutines : GetStore(g)

SpecCache == InitCache /\ [][CacheNext]_vars

\* The cache read for one key, whose issue is created and then edited in
\* the tracker.
ReadsNext ==
    \/ Tick
    \/ RemoteEdit("MIR-1")
    \/ \E g \in Goroutines : GetRead(g, "MIR-1")
    \/ \E g \in Goroutines : GetCheck(g)
    \/ \E g \in Goroutines : GetFetch(g)
    \/ \E g \in Goroutines : GetStore(g)

SpecReads == InitCache /\ [][ReadsNext]_vars

LabelerNext ==
    \/ RemoteLabelChange
    \/ \E g \in Goroutines, k \in Identifiers : EnsureCall(g, k)
    \/ \E g \in Goroutines : EnsureFetch(g)
    \/ \E g \in Goroutines : ResolveBegin(g)
    \/ \E g \in Goroutines : OnceFetchLabel(g)
    \/ \E g \in Goroutines : ResolveReturn(g)
    \/ \E g \in Goroutines : EnsureAddLabel(g)

SpecLabeler == InitLabeler /\ [][LabelerNext]_vars

\* The webhook handler is configured for some team and serves request
\* after request; the tracker behind its Labeler plays no part.
InitWebhook ==
    /\ InitProgram
    /\ remote = [k \in Identifiers |-> Nil]
    /\ remoteLabel = LabelUUID
    /\ hook \in {IdleHook(k) : k \in TeamKeys}
    /\ scan = IdleScan
    /\ InitFront

WebhookNext ==
    \/ \E req \in Requests : ServeHTTP(req)
    \/ ReadBody
    \/ VerifySignature
    \/ ExtractAndScan
    \/ LabelStep
    \/ Respond
    \/ HandlerReturn

SpecWebhook == InitWebhook /\ [][WebhookNext]_vars

\* ScanIdentifiers is called with some text.
InitScan ==
    /\ InitProgram
    /\ remote = [k \in Identifiers |-> Nil]
    /\ remoteLabel = LabelUUID
    /\ hook = IdleHook(<<"A">>)
    /\ scan \in {[IdleScan EXCEPT !.pc = "called", !.text = t] : t \in ScanTexts}
    /\ InitFront

ScanNext == ScanCall

SpecScan == InitScan /\ [][ScanNext]_vars

\* A RepoScanner with or without token and git directory, and one ScanRepo
\* call for a team key in upper or lower case.
InitBackfill ==
    /\ InitProgram
    /\ InitGithub
    /\ remote = [k \in Identifiers |-> Nil]
    /\ remoteLabel = LabelUUID
    /\ backfill \in {IdleBackfill(t, d, k) :
                        t \in {"", "ghp_testtoken"}, d \in {"", "."},
                        k \in {<<"A">>, <<"a">>}}
    /\ parse = IdleParse
    /\ serve = IdleServe(<<"M", "I", "R">>)
    /\ run = IdleRun(FALSE)

BackfillNext ==
    \/ ScanRepo
    \/ scanGitLog
    \/ paginate

SpecBackfill == InitBackfill /\ [][BackfillNext]_vars

\* ScanRepo when git and every request return: no step that can be taken
\* is put off for ever.
SpecBackfillFair == SpecBackfill /\ WF_vars(BackfillNext)

\* One ParseIdentifier call with any text of up to MaxIdentifierLen
\* characters.
InitParse ==
    /\ InitProgram
    /\ InitGithub
    /\ remote = [k \in Identifiers |-> Nil]
    /\ remoteLabel = LabelUUID
    /\ backfill = IdleBackfill("", "", <<"A">>)
    /\ serve = IdleServe(<<"M", "I", "R">>)
    /\ run = IdleRun(FALSE)
    /\ parse \in {[IdleParse EXCEPT !.pc = "called", !.identifier = s] :
                    s \in UNION {[1..n -> IdentifierChars] : n \in 0..MaxIdentifierLen}}

ParseNext == ParseCall

SpecParse == InitParse /\ [][ParseNext]_vars

\* The server for the team "MIR", its key given in upper or lower case,
\* against a tracker that holds the issue MIR-1 or not, with any labels, and
\* no issue MIR-2; requests are served one after the other.
InitServe ==
    /\ InitProgram
    /\ InitGithub
    /\ remote \in [Identifiers -> UNION {RemoteIssues(k) : k \in Identifiers}]
    /\ remote["MIR-1"] \in RemoteIssues("MIR-1")
    /\ remote["MIR-2"] = Nil
    /\ remoteLabel = LabelUUID
    /\ backfill = IdleBackfill("", "", <<"A">>)
    /\ parse = IdleParse
    /\ serve \in {IdleServe(k) : k \in {<<"M", "I", "R">>, <<"m", "i", "r">>}}
    /\ run = IdleRun(FALSE)

ServeNext ==
    \/ Tick
    \/ RemoteEdit("MIR-1")
    \/ \E path \in ServePaths : ServeRequest(path)
    \/ serve.pc = "get" /\ get["g1"].pc = "idle"
          /\ GetRead("g1", CacheKey(serve.identifier))
    \/ serve.pc = "get" /\ GetCheck("g1")
    \/ serve.pc = "get" /\ GetFetch("g1")
    \/ serve.pc = "get" /\ GetStore("g1")
    \/ ServeRespond
    \/ ServeReturn

SpecServe == InitServe /\ [][ServeNext]_vars

\* The backfill command with or without -apply, its PublicLabeler unused,
\* against any tracker.
InitRun ==
    /\ InitProgram
    /\ InitGithub
    /\ backfill = IdleBackfill("", "", <<"A">>)
    /\ parse = IdleParse
    /\ serve = IdleServe(<<"M", "I", "R">>)
    /\ run \in {IdleRun(apply) : apply \in BOOLEAN}
    /\ remote \in [Identifiers -> UNION {RemoteIssues(k) : k \in Identifiers}]
    /\ \A k \in Identifiers : remote[k] \in RemoteIssues(k)
    /\ remoteLabel \in {"", LabelUUID}

RunNext ==
    \/ RunScan
    \/ RunLabel
    \/ EnsureFetch("g1")
    \/ ResolveBegin("g1")
    \/ OnceFetchLabel("g1")
    \/ ResolveReturn("g1")
    \/ EnsureAddLabel("g1")
    \/ RunLabelReturn
    \/ RunReturn

SpecRun == InitRun /\ [][RunNext]_vars

(* ------------------------- Cache: properties --------------------------- *)
\* Goroutine g's Get takes the step that ends its hit test.
HitTestStep(g) == get[g].pc = "check" /\ get'[g].pc # "check"
\* Goroutine g's Get returns in this step.
ReturnStep(g) == get[g].pc # "done" /\ get'[g].pc = "done"

\* C1: a Get whose hit test finds the entry it read for its identifier with
\* now - fetchedAt < ttl returns at once that entry's stored value, without
\* error, having made no FetchIssue call, and leaves the map as it is.
C1_HitReturnsStoredNoFetch ==
    [][\A g \in Goroutines :
         (HitTestStep(g) /\ get[g].e # NoEntry /\ now - get[g].e.fetchedAt < TTL)
            => /\ get'[g].pc = "done"
               /\ get'[g].issue = get[g].e.issue
               /\ get'[g].err = NoErr
               /\ get'[g].calls = 0
               /\ entries' = entries]_vars

\* A Get has returned a cached issue on a hit, with no fetch.
C1_Witness ==
    \E g \in Goroutines :
        /\ get[g].pc = "done" /\ get[g].found = "fresh" /\ get[g].calls = 0
        /\ get[g].issue # Nil
        /\ entries[get[g].identifier].issue = get[g].issue

\* C2: a Get that found no entry, or an entry of age >= ttl, has made exactly
\* one FetchIssue call when it returns; when that fetch succeeded, the step
\* that stores its result leaves the identifier's entry equal to the fetched
\* value stamped with the current time (every other entry untouched), and
\* the Get returns that value.
C2_MissFetchesOnceAndReplaces ==
    [][\A g \in Goroutines :
         /\ (HitTestStep(g) /\ (get[g].e = NoEntry \/ now - get[g].e.fetchedAt >= TTL))
               => (get'[g].pc = "fetch" /\ get'[g].calls = 0)
         /\ (ReturnStep(g) /\ get[g].pc # "check")
               => /\ get'[g].calls = 1
                  /\ get'[g].err = NoErr =>
                        /\ get[g].pc = "store"
                        /\ get'[g].issue = get[g].issue
                        /\ entries' = [entries EXCEPT ![get[g].identifier] =
                                          [issue |-> get[g].issue, fetchedAt |-> now]]
         /\ (get[g].pc = "fetch" /\ get'[g].pc = "store")
               => get'[g].issue = remote[get[g].identifier]]_vars

\* A Get has refreshed a stale entry: its one fetch succeeded and the entry
\* now holds the returned value, stamped now.
C2_Witness ==
    \E g \in Goroutines :
        /\ get[g].pc = "done" /\ get[g].found = "stale" /\ get[g].calls = 1
        /\ get[g].err = NoErr /\ get[g].issue # Nil
        /\ entries[get[g].identifier] = [issue |-> get[g].issue, fetchedAt |-> now]
        /\ \A o \in Goroutines \ {g} : get[o].pc = "idle"

\* C3: a successful fetch that reports no issue is stored like any other
\* result, and a Get whose hit test finds such an entry inside the ttl
\* returns "no issue" without error and without a FetchIssue call.
C3_AbsentIsCached ==
    [][\A g \in Goroutines :
         /\ (get[g].pc = "store" /\ get[g].issue = Nil /\ get'[g].pc # "store")
               => /\ entries'[get[g].identifier] = [issue |-> Nil, fetchedAt |-> now]
                  /\ get'[g].pc = "done" /\ get'[g].issue = Nil /\ get'[g].err = NoErr
         /\ (HitTestStep(g) /\ get[g].e # NoEntry /\ get[g].e.issue = Nil
                 /\ now - get[g].e.fetchedAt < TTL)
               => /\ get'[g].pc = "done" /\ get'[g].issue = Nil
                  /\ get'[g].err = NoErr /\ get'[g].calls = 0]_vars

\* A Get has been answered "no issue" from the cache.
C3_Witness ==
    \E g \in Goroutines :
        /\ get[g].pc = "done" /\ get[g].found = "fresh" /\ get[g].calls = 0
        /\ get[g].issue = Nil /\ get[g].err = NoErr
        /\ entries[get[g].identifier] # NoEntry
        /\ entries[get[g].identifier].issue = Nil

\* C4: a Get that returns an error returns no issue, does so straight from
\* the fetch step, and leaves every entry of the map as it was (no entry
\* appears, a stale entry keeps its value and its timestamp).
C4_FetchErrorLeavesMap ==
    [][\A g \in Goroutines :
         (ReturnStep(g) /\ get'[g].err # NoErr)
            => /\ get[g].pc = "fetch"
               /\ get'[g].issue = Nil
               /\ get'[g].calls = 1
               /\ entries' = entries]_vars

\* A Get of a stale entry has failed, and the stale entry is still there.
C4_Witness ==
    \E g \in Goroutines :
        /\ get[g].pc = "done" /\ get[g].err # NoErr /\ get[g].found = "stale"
        /\ entries[get[g].identifier] # NoEntry
        /\ now - entries[get[g].identifier].fetchedAt >= TTL
(* --------------------- PublicLabeler: properties ----------------------- *)
\* The issue carries a label named exactly "public".
CarriesPublic(issue) == \E i \in DOMAIN issue.Labels : issue.Labels[i] = "public"

\* Goroutine g's invocation fetched an existing issue without "public": it
\* needs the label ID.
NeedsLabel(g) ==
    /\ ensure[g].reply.err = NoErr
    /\ ensure[g].reply.issue # Nil
    /\ ~CarriesPublic(ensure[g].reply.issue)

\* Goroutine g's invocation has got an answer from resolveLabelID.
PastResolution(g) == NeedsLabel(g) /\ ensure[g].pc \in {"add", "done"}

\* The invocation of g has not called AddLabel.
NoAddLabelCall(g) ==
    \A i \in 1..Len(ensure[g].calls) : ensure[g].calls[i][1] # "AddLabel"

FetchIssueCall(g) == <<"FetchIssue", ensure[g].identifier>>
FetchLabelCall == <<"FetchLabelByName", "MIR", "public">>

\* C5: under every interleaving of EnsurePublicLabel calls on one instance,
\* FetchLabelByName is called at most once; no caller gets past the
\* resolution before that call has completed; and all callers that needed
\* the label ID were handed one and the same (labelID, error) pair, the one
\* the single call produced.
C5_ResolveOnceSharedOutcome ==
    /\ labelFetches <= 1
    /\ Cardinality(observed) <= 1
    /\ labelOnce # "done" =>
          /\ observed = {}
          /\ \A g \in Goroutines : ~PastResolution(g)
    /\ labelOnce = "done" =>
          /\ labelFetches = 1
          /\ labelID = labelReply.id
          /\ observed \subseteq {<<labelID, labelErr>>}
    /\ \A g \in Goroutines : PastResolution(g) =>
          /\ ensure[g].labelID = labelID
          /\ labelErr # NoErr =>
                (ensure[g].pc = "done" /\ ensure[g].err = Wrap("", labelErr))

\* Two overlapping invocations both needed the label ID and both got it,
\* from one FetchLabelByName call.
C5_Witness ==
    /\ labelFetches = 1
    /\ \A g \in Goroutines : PastResolution(g) /\ ensure[g].overlapped
    /\ \E g \in Goroutines : Len(ensure[g].calls) >= 1 /\ FetchLabelCall \notin
                                {ensure[g].calls[i] : i \in 1..Len(ensure[g].calls)}

\* C6: once the instance's one resolution has ended in an error, the error
\* stays: labelOnce, labelID and labelErr never change again and no further
\* FetchLabelByName call is made; and every invocation that reached the
\* resolution has returned exactly that error, with no AddLabel call.
C6_ResolutionErrorIsPermanent ==
    /\ [](labelOnce = "done" /\ labelErr # NoErr =>
            \A g \in Goroutines : PastResolution(g) =>
                /\ ensure[g].pc = "done"
                /\ ensure[g].err = Wrap("", labelErr)
                /\ NoAddLabelCall(g))
    /\ [][labelOnce = "done" /\ labelErr # NoErr =>
            /\ labelOnce' = "done"
            /\ labelErr' = labelErr
            /\ labelID' = labelID
            /\ labelFetches' = labelFetches]_vars

\* The first caller's context was cancelled during the resolution; a later
\* invocation, made when the tracker does have the label, got that same
\* error after its FetchIssue call alone.
C6_Witness ==
    /\ labelOnce = "done" /\ labelErr = "canceled"
    /\ remoteLabel = LabelUUID
    /\ \E g \in Goroutines :
          /\ ensure[g].pc = "done" /\ ~ensure[g].first /\ NeedsLabel(g)
          /\ ensure[g].calls = <<FetchIssueCall(g)>>
          /\ ensure[g].err = Wrap("", "canceled")

\* C7: an invocation whose FetchIssue answered an issue carrying a label
\* named "public" has returned nil right after it: FetchIssue is its only
\* remote call.
C7_AlreadyPublicIsNoOp ==
    \A g \in Goroutines :
        (/\ ensure[g].reply.err = NoErr
         /\ ensure[g].reply.issue # Nil
         /\ CarriesPublic(ensure[g].reply.issue))
            => /\ ensure[g].pc = "done"
               /\ ensure[g].err = NilError
               /\ ensure[g].calls = <<FetchIssueCall(g)>>

\* An invocation on an issue labelled "nonpublic", "public" has returned
\* nil after one call.
C7_Witness ==
    \E g \in Goroutines :
        /\ ensure[g].pc = "done" /\ ensure[g].reply.err = NoErr
        /\ ensure[g].reply.issue # Nil
        /\ ensure[g].reply.issue.Labels = <<"nonpublic", "public">>
        /\ ensure[g].err = NilError
        /\ ensure[g].calls = <<FetchIssueCall(g)>>

\* C8: an invocation whose FetchIssue answered "no issue" without error has
\* returned nil, and FetchIssue is its only remote call.
C8_AbsentIssueIsNoOp ==
    \A g \in Goroutines :
        ensure[g].reply = [issue |-> Nil, err |-> NoErr]
            => /\ ensure[g].pc = "done"
               /\ ensure[g].err = NilError
               /\ ensure[g].calls = <<FetchIssueCall(g)>>

\* An invocation on an identifier without issue has returned nil.
C8_Witness ==
    \E g \in Goroutines :
        /\ ensure[g].pc = "done"
        /\ ensure[g].reply = [issue |-> Nil, err |-> NoErr]
        /\ remote[ensure[g].identifier] = Nil
        /\ ensure[g].err = NilError

FirstCallNormalCase(g) ==
    /\ ensure[g].first
    /\ ensure[g].pc = "done"
    /\ NeedsLabel(g)
    /\ labelReply.err = NoErr /\ labelReply.id # ""

\* The three calls of C10, in order, and success when AddLabel succeeded.
ThreeCallsInOrder(g) ==
    /\ ensure[g].calls = <<FetchIssueCall(g), FetchLabelCall,
                           <<"AddLabel", ensure[g].reply.issue.ID, labelReply.id>> >>
    /\ ensure[g].addErr = NoErr => ensure[g].err = NilError
    /\ ensure[g].addErr # NoErr => ensure[g].err = Wrap("add label", ensure[g].addErr)

\* C10 as stated: the first invocation of an instance, in the normal case,
\* makes exactly FetchIssue, FetchLabelByName, AddLabel, in that order.
C10_FirstCallThreeCalls_Original ==
    \A g \in Goroutines : FirstCallNormalCase(g) => ThreeCallsInOrder(g)

\* C10 amended: the same, for a first invocation that no other invocation
\* on the instance overlaps.
C10_FirstCallThreeCalls ==
    \A g \in Goroutines :
        (FirstCallNormalCase(g) /\ ~ensure[g].overlapped) => ThreeCallsInOrder(g)

\* A lone first invocation has made the three calls and returned nil, and
\* the tracker's issue now carries "public".
C10_Witness ==
    \E g \in Goroutines :
        /\ FirstCallNormalCase(g) /\ ~ensure[g].overlapped
        /\ Len(ensure[g].calls) = 3
        /\ ensure[g].err = NilError
        /\ CarriesPublic(remote[ensure[g].identifier])

\* The issue carries a label named "nonpublic" and none named "public".
NonpublicOnly(issue) ==
    /\ \E i \in DOMAIN issue.Labels : issue.Labels[i] = "nonpublic"
    /\ ~CarriesPublic(issue)

\* C11: an invocation that has returned, on an existing issue carrying
\* "nonpublic" and not "public", returned nil, whether or not the team has
\* a resolvable "public" label.
C11_NonpublicReturnsNil ==
    \A g \in Goroutines :
        (/\ ensure[g].pc = "done"
         /\ ensure[g].reply.err = NoErr
         /\ ensure[g].reply.issue # Nil
         /\ NonpublicOnly(ensure[g].reply.issue))
            => ensure[g].err = NilError

(* ------------------------ Webhook: properties -------------------------- *)
\* The header carries the "sha256=" prefix followed by the digest in
\* hexadecimal digits of either case.
CarriesDigest(signature, digest) ==
    /\ Len(signature) = Len(Sha256Prefix) + 2 * Len(digest)
    /\ SubSeq(signature, 1, Len(Sha256Prefix)) = Sha256Prefix
    /\ ToUpper(SubSeq(signature, Len(Sha256Prefix) + 1, Len(signature)))
          = ToUpper(EncodeToString(digest))

\* The header is missing, lacks the prefix, carries no hexadecimal digest,
\* or carries a digest other than that of the body under the secret.
SignatureFails(signature, body) == ~CarriesDigest(signature, hmacSum(secret, body))

\* The handler has read the body of the request in hand.
BodyRead == hook.pc \notin {"idle", "read"} /\ ~hook.req.readErr

NoDuplicates(s) == \A a, b \in DOMAIN s : a # b => s[a] # s[b]

C13_AuthenticatedIsOK ==
    hook.pc = "done" =>
        /\ hook.status \in {200, 400, 403}
        /\ hook.status = 400 <=> hook.req.readErr
        /\ hook.status = 403 <=>
              (~hook.req.readErr /\ SignatureFails(hook.req.signature, hook.body))
        /\ hook.status = 200 <=>
              (~hook.req.readErr /\ ~SignatureFails(hook.req.signature, hook.body))

\* A request two of whose EnsurePublicLabel calls failed was answered 200.
C13_Witness ==
    /\ hook.pc = "done" /\ hook.status = 200
    /\ Len(hook.errs) = 2
    /\ \A j \in DOMAIN hook.errs : hook.errs[j] # NoErr

\* The identifier starts with the handler's upper-cased team key and "-".
OfTeam(id) == HasPrefix(id, TeamPrefix(hook.teamKey))

\* C14: once an EnsurePublicLabel call of a request has failed, no
\* identifier is attempted twice, the loop has still attempted every
\* team-matching identifier it went past, and the response follows only
\* when it went past all of them.
C14_ErrorDoesNotStopLoop ==
    (\E j \in DOMAIN hook.errs : hook.errs[j] # NoErr) =>
        /\ NoDuplicates(hook.attempts)
        /\ Len(hook.errs) = Len(hook.attempts)
        /\ hook.pc = "label" =>
              /\ hook.i <= Len(hook.identifiers.elems) + 1
              /\ hook.attempts
                    = SelectSeq(SubSeq(hook.identifiers.elems, 1, hook.i - 1), OfTeam)
        /\ hook.pc = "done" =>
              hook.attempts = SelectSeq(hook.identifiers.elems, OfTeam)

\* The first of two team-matching identifiers failed and the second was
\* attempted all the same.
C14_Witness ==
    /\ hook.pc = "done" /\ hook.status = 200
    /\ hook.errs = <<"labeler error", NoErr>>
    /\ hook.attempts = << <<"A", "-", "2">>, <<"A", "-", "1">> >>

\* A whole-word token of the form upper-case letters, hyphen, digits at
\* positions i..j of the text: no letter, digit or underscore next to it.
WordChars == UpperLetters \cup LowerLetters \cup DecimalDigits \cup {"_"}
IsToken(text, i, j) ==
    /\ 1 <= i /\ i < j /\ j <= Len(text)
    /\ \E h \in (i + 1)..(j - 1) :
          /\ text[h] = "-"
          /\ \A x \in i..(h - 1) : text[x] \in UpperLetters
          /\ \A x \in (h + 1)..j : text[x] \in DecimalDigits
    /\ i = 1 \/ text[i - 1] \notin WordChars
    /\ j = Len(text) \/ text[j + 1] \notin WordChars

\* The tokens of the text, and the first position at which one starts.
Tokens(text) ==
    {SubSeq(text, i, j) : <<i, j>> \in
        {p \in (1..Len(text)) \X (1..Len(text)) : IsToken(text, p[1], p[2])}}
FirstStart(text, token) ==
    CHOOSE i \in 1..Len(text) :
        /\ IsToken(text, i, i + Len(token) - 1)
        /\ SubSeq(text, i, i + Len(token) - 1) = token
        /\ \A k \in 1..(i - 1) :
              ~(/\ IsToken(text, k, k + Len(token) - 1)
                /\ SubSeq(text, k, k + Len(token) - 1) = token)

\* The first text field a token occurs in.
FirstField(fields, token) ==
    CHOOSE f \in DOMAIN fields :
        /\ token \in Tokens(fields[f])
        /\ \A k \in 1..(f - 1) : token \notin Tokens(fields[k])

\* Token a first occurs before token b in the fields.
OccursBefore(fields, a, b) ==
    \/ FirstField(fields, a) < FirstField(fields, b)
    \/ /\ FirstField(fields, a) = FirstField(fields, b)
       /\ FirstStart(fields[FirstField(fields, a)], a)
             < FirstStart(fields[FirstField(fields, a)], b)

\* The letters of a token, and whether they are the team key in upper case.
TeamOf(token) == SubSeq(token, 1, (CHOOSE h \in DOMAIN token : token[h] = "-") - 1)
TeamMatches(token, key) == TeamOf(token) = ToUpper(key)

\* C15: when an authenticated request has been answered, the attempts are
\* the distinct team-matching tokens of the extracted texts, each once, in
\* the order of their first occurrence over the texts in extraction order.
C15_OneAttemptInFirstOccurrenceOrder ==
    (hook.pc = "done" /\ hook.status = 200) =>
        LET fields == hook.texts.elems
            tokens == UNION {Tokens(fields[f]) : f \in DOMAIN fields}
        IN  /\ NoDuplicates(hook.attempts)
            /\ {hook.attempts[a] : a \in DOMAIN hook.attempts}
                  = {t \in tokens : TeamMatches(t, hook.teamKey)}
            /\ \A a, b \in DOMAIN hook.attempts :
                  a < b => OccursBefore(fields, hook.attempts[a], hook.attempts[b])

\* An "issues" request whose title and body both name A-2, the body also
\* A-1, has had A-2 and A-1 attempted, once each, in this order.
C15_Witness ==
    /\ hook.pc = "done" /\ hook.status = 200
    /\ hook.req.eventType = "issues"
    /\ hook.texts.elems = <<RichDoc.issue.title, RichDoc.issue.body>>
    /\ hook.attempts = << <<"A", "-", "2">>, <<"A", "-", "1">> >>

\* C16: every identifier attempted starts with the team key in upper case
\* and a hyphen, and when the request has been answered every identifier
\* found that does so was attempted, whatever the case of the configured
\* team key.
C16_OnlyTeamIdentifiers ==
    /\ \A a \in DOMAIN hook.attempts : TeamMatches(hook.attempts[a], hook.teamKey)
    /\ (hook.pc = "done" /\ hook.status = 200) =>
          \A j \in DOMAIN hook.identifiers.elems :
              TeamMatches(hook.identifiers.elems[j], hook.teamKey)
                  <=> \E a \in DOMAIN hook.attempts :
                          hook.attempts[a] = hook.identifiers.elems[j]

\* A handler configured with "aB" has attempted AB-3 and not A-1, found in
\* the same text.
C16_Witness ==
    /\ hook.pc = "done" /\ hook.status = 200
    /\ hook.teamKey = <<"a", "B">>
    /\ hook.identifiers.elems = << <<"A", "B", "-", "3">>, <<"A", "-", "1">> >>
    /\ hook.attempts = << <<"A", "B", "-", "3">> >>

\* C17: a request whose body is larger than maxBodySize fails at the read:
\* it is answered 400 and no signature is verified nor any text extracted.
C17_OversizedBodyFailsRead ==
    (hook.pc \notin {"idle", "read"} /\ hook.req.body.size > maxBodySize)
        => /\ hook.pc = "done"
           /\ hook.status = 400
           /\ hook.verified = "no"
           /\ hook.texts = NilSlice

\* The member of the document the event type's extractor reads.
KnownEvents ==
    {"push", "pull_request", "issues", "issue_comment", "pull_request_review",
     "pull_request_review_comment"}
MemberOf(eventType) ==
    CASE eventType = "push" -> "commits"
      [] eventType = "pull_request" -> "pull_request"
      [] eventType = "issues" -> "issue"
      [] eventType = "issue_comment" -> "comment"
      [] eventType = "pull_request_review" -> "review"
      [] eventType = "pull_request_review_comment" -> "comment"

\* The handler has authenticated the request in hand and extracted texts.
Extracted == hook.pc \in {"label", "done"} /\ hook.verified = "accepted"

\* The body is no JSON, or the member the extractor reads has another type
\* than expected.
Unparsable(eventType, doc) ==
    /\ eventType \in KnownEvents
    /\ ~doc.valid \/ doc[MemberOf(eventType)].kind = "mistyped"

\* C18: an authenticated request whose body does not parse for its event
\* type yields nil texts and no identifier, no EnsurePublicLabel call is
\* made for it, and it is answered 200; when the body parses but lacks the
\* member, every text is empty, with the same outcome.
C18_MalformedPayloadIsQuiet ==
    /\ (Extracted /\ Unparsable(hook.req.eventType, hook.body.doc)) =>
          /\ hook.texts = NilSlice
          /\ hook.identifiers = NilSlice
          /\ hook.attempts = <<>>
          /\ hook.pc = "done" => hook.status = 200
    /\ (/\ Extracted /\ hook.req.eventType \in KnownEvents /\ hook.body.doc.valid
        /\ hook.body.doc[MemberOf(hook.req.eventType)].kind = "absent") =>
          /\ \A f \in DOMAIN hook.texts.elems : hook.texts.elems[f] = <<>>
          /\ hook.identifiers = NilSlice
          /\ hook.attempts = <<>>
          /\ hook.pc = "done" => hook.status = 200

\* A "push" request whose commits are mistyped, though one message names
\* A-1, has been answered 200 without texts.
C18_Witness ==
    /\ Extracted /\ hook.pc = "done" /\ hook.status = 200
    /\ hook.req.eventType = "push"
    /\ hook.body.doc = MistypedDoc
    /\ hook.texts = NilSlice /\ hook.attempts = <<>>

\* The text fields claimed for an event type, in order.
ClaimedFields(eventType, doc) ==
    CASE eventType = "push" -> doc.commits.messages
      [] eventType = "pull_request" -> <<doc.pull_request.title, doc.pull_request.body>>
      [] eventType = "issues" -> <<doc.issue.title, doc.issue.body>>
      [] eventType = "issue_comment" -> <<doc.comment.body>>
      [] eventType = "pull_request_review" -> <<doc.review.body>>
      [] eventType = "pull_request_review_comment" -> <<doc.comment.body>>
      [] OTHER -> <<>>

\* C19: the texts extracted from a body that parses are the fields claimed
\* for the event type, in order; for any other event type there are none,
\* no EnsurePublicLabel call is made and the answer is 200.
C19_EventTypeFields ==
    (Extracted /\ ~Unparsable(hook.req.eventType, hook.body.doc)) =>
        /\ hook.texts.elems = ClaimedFields(hook.req.eventType, hook.body.doc)
        /\ hook.req.eventType \notin KnownEvents =>
              /\ hook.texts.elems = <<>>
              /\ hook.attempts = <<>>
              /\ hook.pc = "done" => hook.status = 200

\* A "pull_request_review_comment" request on a document that also carries
\* an issue, a pull request and a review has had the comment body
\* extracted, and A-1 of it attempted.
C19_Witness ==
    /\ Extracted /\ hook.pc = "done"
    /\ hook.req.eventType = "pull_request_review_comment"
    /\ hook.body.doc = RichDoc
    /\ hook.texts.elems = <<RichDoc.comment.body>>
    /\ hook.attempts = << <<"A", "-", "1">> >>

(* -------------------- ScanIdentifiers: properties ---------------------- *)
\* C20: ScanIdentifiers returns the whole-word tokens of the text, each
\* once, in the order of their first occurrence, and nil when there is none.
C20_ScanIdentifiersTokens ==
    scan.pc = "returned" =>
        LET r == scan.result.elems
        IN  /\ {r[a] : a \in DOMAIN r} = Tokens(scan.text)
            /\ NoDuplicates(r)
            /\ \A a, b \in DOMAIN r :
                  a < b => FirstStart(scan.text, r[a]) < FirstStart(scan.text, r[b])
            /\ scan.result.isNil <=> Tokens(scan.text) = {}

\* The call on "B-2 A-1 B-2 " has returned B-2, A-1.
C20_Witness ==
    /\ scan.pc = "returned"
    /\ scan.text = <<"B", "-", "2", " ", "A", "-", "1", " ", "B", "-", "2", " ">>
    /\ scan.result = Slice(<< <<"B", "-", "2">>, <<"A", "-", "1">> >>)

(* ------------------ PublicLabeler: further properties ------------------ *)
\* The calls of the invocation of g with the given name.
CallsNamed(g, name) ==
    {i \in DOMAIN ensure[g].calls : ensure[g].calls[i][1] = name}

\* C28: the step in which an invocation leaves its fetch makes FetchIssue
\* for its identifier its first and only call so far and takes the answer
\* from what the tracker holds at that step; and at any time an invocation
\* past its fetch has FetchIssue as first call, one still at it no call.
C28_AlwaysLiveFetch ==
    /\ [][\A g \in Goroutines :
            (ensure[g].pc = "fetch" /\ ensure'[g].pc # "fetch") =>
                /\ ensure'[g].calls = <<FetchIssueCall(g)>>
                /\ ensure'[g].reply \in FetchIssue(ensure[g].identifier)]_vars
    /\ [](\A g \in Goroutines :
            /\ ensure[g].pc = "fetch" => ensure[g].calls = <<>>
            /\ ensure[g].pc \in {"resolve", "add", "done"} =>
                  ensure[g].calls[1] = FetchIssueCall(g))

\* An invocation that began after another labelled the same issue has
\* fetched it again: it saw "public", which the other had not, and returned
\* nil after that one call.
C28_Witness ==
    \E g, h \in Goroutines :
        /\ g # h /\ ensure[g].identifier = ensure[h].identifier
        /\ ensure[h].pc = "done" /\ ensure[h].addErr = NoErr
        /\ ~CarriesPublic(ensure[h].reply.issue)
        /\ ensure[g].pc = "done" /\ ~ensure[g].overlapped /\ ~ensure[g].first
        /\ ensure[g].reply.err = NoErr /\ ensure[g].reply.issue # Nil
        /\ CarriesPublic(ensure[g].reply.issue)
        /\ ensure[g].calls = <<FetchIssueCall(g)>>

\* C29: an invocation has made at most one FetchIssue and at most one
\* AddLabel call; when FetchIssue failed it has returned that error after
\* this one call, and when AddLabel failed it has returned that error.
C29_NoRetry ==
    \A g \in Goroutines :
        /\ Cardinality(CallsNamed(g, "FetchIssue")) <= 1
        /\ Cardinality(CallsNamed(g, "AddLabel")) <= 1
        /\ ensure[g].reply.err \in RemoteErrs =>
              /\ ensure[g].pc = "done"
              /\ ensure[g].calls = <<FetchIssueCall(g)>>
              /\ ensure[g].err = Wrap("fetch issue", ensure[g].reply.err)
        /\ ensure[g].addErr \in RemoteErrs =>
              /\ ensure[g].pc = "done"
              /\ ensure[g].err = Wrap("add label", ensure[g].addErr)

\* An invocation whose AddLabel failed has returned the error after three
\* calls, and another whose FetchIssue failed after one.
C29_Witness ==
    \E g, h \in Goroutines :
        /\ ensure[g].pc = "done" /\ ensure[g].addErr \in RemoteErrs
        /\ Len(ensure[g].calls) = 3
        /\ ensure[g].err = Wrap("add label", ensure[g].addErr)
        /\ ensure[h].pc = "done" /\ ensure[h].reply.err \in RemoteErrs
        /\ ensure[h].calls = <<FetchIssueCall(h)>>

\* C30: an invocation that saw its issue without "public" and got a label
\* ID has, when it returns, called AddLabel for the issue, whatever another
\* invocation did to the issue in between: nothing keeps two invocations
\* for one identifier from both doing so.
C30_BothInvocationsApply ==
    \A g \in Goroutines :
        (/\ ensure[g].pc = "done" /\ NeedsLabel(g)
         /\ labelOnce = "done" /\ labelErr = NoErr)
            => /\ Cardinality(CallsNamed(g, "AddLabel")) = 1
               /\ ensure[g].calls[Len(ensure[g].calls)]
                     = <<"AddLabel", ensure[g].reply.issue.ID, labelID>>

\* Two overlapping invocations for one identifier both saw the issue
\* without "public" and both called AddLabel for it with success.
C30_Witness ==
    \E g, h \in Goroutines :
        /\ g # h /\ ensure[g].identifier = ensure[h].identifier
        /\ ensure[g].pc = "done" /\ ensure[h].pc = "done"
        /\ NeedsLabel(g) /\ NeedsLabel(h)
        /\ ensure[g].overlapped /\ ensure[h].overlapped
        /\ ensure[g].addErr = NoErr /\ ensure[h].addErr = NoErr
        /\ CallsNamed(g, "AddLabel") # {} /\ CallsNamed(h, "AddLabel") # {}

(* ------------------ RepoScanner: properties of ScanRepo ----------------- *)

\* The text fields of the items of one page, in the order of the page:
\* title and body of a pull request or issue, body of a comment.
RECURSIVE FieldsOf(_, _)
FieldsOf(source, items) ==
    IF items = <<>> THEN <<>>
    ELSE (IF source \in {"pull requests", "issues"}
          THEN <<Head(items).title, Head(items).body>>
          ELSE <<Head(items).body>>) \o FieldsOf(source, Tail(items))

\* The text fields of the pages answered so far, in the order answered.
RECURSIVE PageFields(_)
PageFields(log) ==
    IF log = <<>> THEN <<>>
    ELSE PageFields(SubSeq(log, 1, Len(log) - 1))
         \o FieldsOf(log[Len(log)].source, log[Len(log)].resp.items)

\* Everything a finished scan has read: the local history when a git
\* directory is set, then the pages.
ScannedFields ==
    (IF backfill.gitDir # "" THEN <<GitLogOutput>> ELSE <<>>) \o PageFields(backfill.log)
SourceIndex(source) == CHOOSE i \in DOMAIN scanners : scanners[i] = source
ScanSucceeded == backfill.pc = "done" /\ backfill.err = ""

\* C21: the identifiers of a successful ScanRepo all carry the upper-cased
\* team key, hold no duplicate, hold every team identifier of every source
\* scanned, and stand in the order of first occurrence over the sources in
\* the order local history (with a git directory only), pull requests,
\* issues, issue comments, review comments.
C21_ScanRepoResult ==
    ScanSucceeded =>
        LET ids == backfill.ids.elems
            fields == ScannedFields
            all == UNION {Tokens(fields[f]) : f \in DOMAIN fields}
        IN  /\ \A j \in DOMAIN ids : ids[j] \in all /\ TeamMatches(ids[j], backfill.teamKey)
            /\ NoDuplicates(ids)
            /\ \A t \in all : TeamMatches(t, backfill.teamKey)
                  => \E j \in DOMAIN ids : ids[j] = t
            /\ \A a, b \in DOMAIN ids : a < b => OccursBefore(fields, ids[a], ids[b])
            /\ \A a, b \in DOMAIN backfill.log : a < b =>
                  SourceIndex(backfill.log[a].source) <= SourceIndex(backfill.log[b].source)
            /\ {backfill.log[j].source : j \in DOMAIN backfill.log}
                  = {scanners[i] : i \in DOMAIN scanners}
            /\ backfill.gitRuns = IF backfill.gitDir # "" THEN 1 ELSE 0

\* A scan for the key "a" with local history and two pages of pull requests
\* gave the identifiers of the history, then those of titles and bodies.
C21_Witness ==
    /\ ScanSucceeded /\ backfill.teamKey = <<"a">> /\ backfill.gitDir = "."
    /\ Len(backfill.log) = 5
    /\ backfill.ids.elems
          = << <<"A", "-", "1">>, <<"A", "-", "3">>, <<"A", "-", "4">>,
               <<"A", "-", "5">>, <<"A", "-", "6">>, <<"A", "-", "9">> >>

\* C22: a page answered with a status other than 200 ends ScanRepo with an
\* error and no list; what was found before is not returned, and no page
\* is requested after it.
C22_StatusErrorAborts ==
    \A j \in DOMAIN backfill.log :
        backfill.log[j].resp.status # 200 =>
            /\ j = Len(backfill.log)
            /\ backfill.pc = "done"
            /\ backfill.err # ""
            /\ backfill.ids = NilSlice

\* The second page of the issues was answered 403 after identifiers had
\* been found, and ScanRepo returned none.
C22_Witness ==
    /\ backfill.pc = "done" /\ backfill.err = "scan issues"
    /\ Len(backfill.log) = 3
    /\ backfill.log[3].resp.status = 403
    /\ backfill.log[3].url = PageURL("issues", 2)
    /\ Len(backfill.result.elems) >= 3
    /\ backfill.ids = NilSlice

\* The URL of the relation "next" of a response, <<>> when it has none.
NextOf(resp) ==
    IF \E r \in DOMAIN resp.rels : resp.rels[r].rel = <<"n", "e", "x", "t">>
    THEN resp.rels[CHOOSE r \in DOMAIN resp.rels :
                      resp.rels[r].rel = <<"n", "e", "x", "t">>].url
    ELSE <<>>
Decoded(resp) == resp.status = 200 /\ resp.valid

\* C23: within a source the first request goes to the first page and every
\* further one to the URL of the relation "next" of the response before;
\* the source ends at the first response without that relation, and every
\* page visited gives its team identifiers.
C23_FollowsNextLinks ==
    /\ \A j \in DOMAIN backfill.log :
          LET e == backfill.log[j]
          IN  /\ IF j = 1 \/ backfill.log[j - 1].source # e.source
                 THEN e.url = FirstPageURL(repoURL(SourcePath(e.source)))
                 ELSE /\ Decoded(backfill.log[j - 1].resp)
                      /\ NextOf(backfill.log[j - 1].resp) # <<>>
                      /\ e.url = NextOf(backfill.log[j - 1].resp)
              /\ (Decoded(e.resp) /\ NextOf(e.resp) = <<>> /\ j < Len(backfill.log))
                    => backfill.log[j + 1].source # e.source
              /\ (Decoded(e.resp) /\ NextOf(e.resp) # <<>>)
                    => IF j < Len(backfill.log)
                       THEN backfill.log[j + 1].source = e.source
                       ELSE backfill.pc = "page" /\ backfill.url = NextOf(e.resp)
              /\ Decoded(e.resp) =>
                    \A f \in DOMAIN FieldsOf(e.source, e.resp.items) :
                        \A t \in Tokens(FieldsOf(e.source, e.resp.items)[f]) :
                            TeamMatches(t, backfill.teamKey)
                                => \E x \in DOMAIN backfill.result.elems :
                                      backfill.result.elems[x] = t

\* The second page of the pull requests came with the relation "prev"
\* only, and the next request went to the first page of the issues.
C23_Witness ==
    /\ Len(backfill.log) >= 3
    /\ backfill.log[1].url = FirstPageURL(repoURL(SourcePath("pull requests")))
    /\ backfill.log[2].url = PageURL("pull requests", 2)
    /\ backfill.log[2].resp.rels = <<PrevRel("pull requests", 2)>>
    /\ backfill.log[3].url = FirstPageURL(repoURL(SourcePath("issues")))

\* C24: every request to the remote carries the header Authorization with
\* "Bearer " and the token when a token is set, and no Authorization header
\* when the token is empty.
C24_BearerToken ==
    \A j \in DOMAIN backfill.log :
        /\ backfill.token # "" =>
              /\ backfill.log[j].auth.set
              /\ backfill.log[j].auth.value = <<"Bearer ", backfill.token>>
        /\ backfill.token = "" => ~backfill.log[j].auth.set

\* A scanner without token has requested all four sources and sent no
\* Authorization header.
C24_Witness ==
    /\ backfill.token = "" /\ ScanSucceeded
    /\ Len(backfill.log) >= 4
    /\ \A j \in DOMAIN backfill.log : ~backfill.log[j].auth.set

\* C25: with a git directory, a failure of git log ends ScanRepo with an
\* error, no identifiers and no request to the remote; without one, git is
\* not run and the scan starts with the pull requests.
C25_GitLogFailure ==
    /\ backfill.gitErr =>
          /\ backfill.gitDir # ""
          /\ backfill.pc = "done"
          /\ backfill.err = "scan git log"
          /\ backfill.ids = NilSlice
          /\ backfill.log = <<>>
    /\ backfill.gitDir = "" =>
          /\ backfill.gitRuns = 0
          /\ backfill.pc # "git"
          /\ backfill.log # <<>> => backfill.log[1].source = "pull requests"

\* git log has failed and ScanRepo has returned the error.
C25_Witness ==
    /\ backfill.gitDir = "." /\ backfill.gitErr /\ backfill.gitRuns = 1
    /\ backfill.pc = "done" /\ backfill.err = "scan git log"
    /\ backfill.log = <<>>

(* ----------------- linearapi: properties of ParseIdentifier ------------- *)

\* The text has a team key of one or more characters before its first
\* hyphen and after it a number that is not negative: decimal digits, one
\* or more, with or without a plus sign before them.
WellFormedIdentifier(s) ==
    \E h \in DOMAIN s :
        /\ h > 1 /\ s[h] = "-"
        /\ \A j \in 1..(h - 1) : s[j] # "-"
        /\ \E d \in (h + 1)..Len(s) :
              /\ d = h + 1 \/ (d = h + 2 /\ s[h + 1] = "+")
              /\ \A j \in d..Len(s) : s[j] \in DecimalDigits

\* C26: a text ParseIdentifier accepts gives a team key of one or more
\* characters, the text before the first hyphen, and a number that is not
\* negative; a text without hyphen, with an empty team key or with a
\* remainder that is no number or is negative is rejected.
C26_AcceptedIsWellFormed ==
    parse.pc = "done" =>
        /\ parse.err = "" =>
              /\ Len(parse.teamKey) >= 1
              /\ parse.teamKey \o <<"-">>
                    = SubSeq(parse.identifier, 1, Len(parse.teamKey) + 1)
              /\ \A j \in DOMAIN parse.teamKey : parse.teamKey[j] # "-"
              /\ parse.number >= 0
        /\ ~WellFormedIdentifier(parse.identifier) => parse.err # ""

(* ------------------- main: properties of the GET handler ---------------- *)

\* The issue carries a label named "public".
LabelledPublic(issue) ==
    issue # Nil /\ \E i \in DOMAIN issue.Labels : issue.Labels[i] = "public"

\* C27: a request with a well-formed team identifier is answered by what
\* Cache.Get returned alone: an error gives 500, no issue gives 404 and the
\* not-found page, an issue without the label "public" gives 200 and the
\* stub page, which is handed nothing of the issue, an issue with it gives
\* 200 and the full page of that issue; the full page is never rendered
\* for an issue without the label.
C27_ServeByCacheResult ==
    /\ (serve.pc = "done" /\ identifierPattern(serve.identifier, serve.teamKey)) =>
          /\ serve.got.called
          /\ serve.got.err # NoErr
                => serve.status = 500 /\ serve.page = "error" /\ serve.shown = Nil
          /\ (serve.got.err = NoErr /\ serve.got.issue = Nil)
                => serve.status = 404 /\ serve.page = "notfound" /\ serve.shown = Nil
          /\ (serve.got.err = NoErr /\ serve.got.issue # Nil
                /\ ~LabelledPublic(serve.got.issue))
                => serve.status = 200 /\ serve.page = "stub" /\ serve.shown = Nil
          /\ (serve.got.err = NoErr /\ LabelledPublic(serve.got.issue))
                => /\ serve.status = 200 /\ serve.page = "issue"
                   /\ serve.shown = serve.got.issue
    /\ serve.page = "issue" => LabelledPublic(serve.shown)

\* The request /mir-1 was answered 200 with the stub page for an issue
\* whose only label is "nonpublic".
C27_Witness ==
    /\ serve.pc = "done" /\ serve.path = <<"m", "i", "r", "-", "1">>
    /\ serve.got.issue = Issue("MIR-1", <<"nonpublic">>)
    /\ serve.status = 200 /\ serve.page = "stub" /\ serve.shown = Nil

(* ----------------- PublicLabeler: runs of invocations ------------------- *)

\* Invocation h has returned after a successful AddLabel for the
\* identifier of invocation g, and neither overlapped another.
AppliedBefore(h, g) ==
    /\ g # h
    /\ ensure[h].pc = "done" /\ ensure[h].addErr = NoErr
    /\ ensure[h].identifier = ensure[g].identifier
    /\ ~ensure[h].overlapped /\ ~ensure[g].overlapped

\* C31 as stated: of two invocations for one identifier that overlapped no
\* other, at most one has called AddLabel.
C31_OneAddLabelPerIssue_Original ==
    \A g, h \in Goroutines :
        (/\ g # h /\ ensure[g].identifier = ensure[h].identifier
         /\ ~ensure[g].overlapped /\ ~ensure[h].overlapped)
            => ~(CallsNamed(g, "AddLabel") # {} /\ CallsNamed(h, "AddLabel") # {})

\* C31 amended: an invocation that begins after another has applied the
\* label to its identifier, neither overlapping any other, goes from its
\* FetchIssue straight to its return, leaves the tracker as it is, makes no
\* AddLabel call and returns nil unless the fetch failed; so an issue gets
\* at most one successful AddLabel (one that failed may be followed by
\* another).
C31_AppliedOnce ==
    /\ [][\A g, h \in Goroutines :
            (AppliedBefore(h, g) /\ ensure[g].pc = "fetch" /\ ensure'[g].pc # "fetch") =>
                /\ ensure'[g].pc = "done"
                /\ remote' = remote
                /\ ensure'[g].calls = <<FetchIssueCall(g)>>
                /\ ensure'[g].reply.err = NoErr => ensure'[g].err = NilError]_vars
    /\ [](\A g, h \in Goroutines :
            (AppliedBefore(h, g) /\ InEnsure(g)) =>
                /\ ensure[g].pc = "fetch"
                /\ CallsNamed(g, "AddLabel") = {})

\* The third invocation of the instance came after one that had labelled
\* the issue with a nonpublic label, and returned nil after its fetch.
C31_Witness ==
    \E g, h \in Goroutines :
        /\ AppliedBefore(h, g) /\ started = 3
        /\ ensure[h].reply.issue # Nil
        /\ ensure[h].reply.issue.Labels = <<"nonpublic">>
        /\ ensure[g].pc = "done" /\ ensure[g].err = NilError
        /\ ensure[g].reply.issue # Nil
        /\ ensure[g].reply.issue.Labels = <<"nonpublic", "public">>
        /\ ensure[g].calls = <<FetchIssueCall(g)>>

(* --------------------- Cache: overlapping refreshes --------------------- *)

\* The Get of goroutine g found no fresh entry and is past its fetch step.
MissedAndFetched(g) ==
    get[g].pc \in {"store", "done"} /\ get[g].found \in {"absent", "stale"}

\* C32: two Gets for one key that both found no fresh entry have each
\* called FetchIssue once they are past the fetch step: nothing makes one of
\* them wait for, or take over, the fetch of the other, so one key can be
\* fetched more than once inside one ttl window.
C32_RefreshNotDeduplicated ==
    \A g, h \in Goroutines :
        (/\ g # h /\ get[g].identifier = get[h].identifier
         /\ MissedAndFetched(g) /\ MissedAndFetched(h))
            => get[g].calls = 1 /\ get[h].calls = 1

\* Two Gets for one key have both fetched it and neither has stored its
\* result yet, at time 0.
C32_Witness ==
    /\ now = 0
    /\ get["g1"].identifier = get["g2"].identifier
    /\ get["g1"].pc = "store" /\ get["g2"].pc = "store"
    /\ get["g1"].calls = 1 /\ get["g2"].calls = 1

\* C33: the entry of a key changes only in the map write of a Get for that
\* key whose FetchIssue succeeded, and becomes the whole value that fetch
\* returned, stamped now; a Get whose fetch failed writes nothing; and the
\* map write of a Get replaces the entry whatever another Get for the key
\* has fetched or written, so of two overlapping refreshes the one that
\* writes last decides the entry.
C33_LastWriteWins ==
    /\ [][/\ \A k \in Identifiers :
                entries'[k] # entries[k] =>
                    \E g \in Goroutines :
                        /\ get[g].pc = "store" /\ get'[g].pc = "done"
                        /\ get[g].identifier = k /\ get'[g].err = NoErr
          /\ \A g \in Goroutines :
                /\ (get[g].pc = "store" /\ get'[g].pc = "done") =>
                      entries'[get[g].identifier]
                          = [issue |-> get[g].issue, fetchedAt |-> now]
                /\ (get[g].pc = "fetch" /\ get'[g].pc = "store") =>
                      get'[g].issue = remote[get[g].identifier]
                /\ (get[g].pc = "fetch" /\ get'[g].pc = "done") =>
                      get'[g].err # NoErr /\ entries' = entries
                /\ (get[g].pc = "store" /\ get'[g].pc = "store") =>
                      get'[g].issue = get[g].issue]_vars
    /\ [](\A k \in Identifiers :
            entries[k] # NoEntry => entries[k].issue \in RemoteIssues(k))

\* Of two overlapping refreshes of one key that fetched different values,
\* both have written; the entry holds the value of g1, which is not what
\* the tracker holds now, and g2 returned the other value.
C33_Witness ==
    /\ get["g1"].pc = "done" /\ get["g2"].pc = "done"
    /\ get["g1"].identifier = get["g2"].identifier
    /\ get["g1"].calls = 1 /\ get["g2"].calls = 1
    /\ get["g1"].err = NoErr /\ get["g2"].err = NoErr
    /\ get["g1"].issue # get["g2"].issue
    /\ entries[get["g1"].identifier] = [issue |-> get["g1"].issue, fetchedAt |-> now]
    /\ remote[get["g1"].identifier] = get["g2"].issue
    /\ now = 0

(* ------------------------- Cache: order of reads ------------------------ *)

\* C34 as stated: a Get that returns an issue returns no older version of
\* it than the newest one the Gets of the other goroutines had returned for
\* the key when it began.
C34_ReadsNeverGoBack_Original ==
    [][\A g \in Goroutines :
         (ReturnStep(g) /\ get'[g].err = NoErr)
            => Version(get'[g].issue) >= get[g].floor]_vars

\* C34 amended: a Get that fetches returns no older version than the newest
\* one returned for the key before it began; a Get answered from the map
\* returns the entry it read, which after overlapping refreshes can be
\* older than a version already returned.
C34_FetchedReadsNeverGoBack ==
    [][\A g \in Goroutines :
         /\ (ReturnStep(g) /\ get'[g].err = NoErr /\ get'[g].calls = 1)
               => Version(get'[g].issue) >= get[g].floor
         /\ (ReturnStep(g) /\ get'[g].calls = 0)
               => /\ get[g].pc = "check" /\ get[g].e # NoEntry
                  /\ get'[g].issue = get[g].e.issue]_vars

\* A Get that began after version 1 of its issue had been returned has
\* fetched and returned version 2.
C34_Witness ==
    \E g \in Goroutines :
        /\ get[g].pc = "done" /\ get[g].err = NoErr /\ get[g].calls = 1
        /\ get[g].floor = 1 /\ Version(get[g].issue) = 2

\* Two paths differ at most in the case of their letters.
SameButCase(p, q) ==
    /\ Len(p) = Len(q)
    /\ \A i \in DOMAIN p :
          \/ p[i] = q[i]
          \/ \E j \in DOMAIN LowerSeq : {p[i], q[i]} = {LowerSeq[j], UpperSeq[j]}

\* The request being answered comes within the ttl of an earlier one that
\* called Cache.Get and whose path differs from its path in letter case
\* only.
SecondOfPair ==
    /\ serve.pc = "done"
    /\ serve.last.path # <<>> /\ serve.last.path # serve.path
    /\ SameButCase(serve.last.path, serve.path)
    /\ now - serve.last.at < TTL

\* C35 as stated: the second of two requests that differ in letter case
\* only, within the ttl, causes no remote fetch and gets the outcome of the
\* first.
C35_CaseInsensitiveKey_Original ==
    SecondOfPair =>
        /\ serve.got.called /\ serve.got.calls = 0
        /\ serve.status = serve.last.status
        /\ serve.page = serve.last.page /\ serve.shown = serve.last.shown

\* C35 amended: the second of two requests that differ in letter case
\* only uses the cache key of the first. Within the ttl of a first request
\* that fetched the issue with success it causes no remote fetch; whenever
\* it causes none after a first request not answered 500, it gets the
\* outcome of the first; after a 500 nothing was stored and it fetches, as
\* it does when the first was answered from an entry that has expired since.
C35_CaseInsensitiveKey ==
    SecondOfPair =>
        /\ serve.got.called
        /\ (serve.last.err = NoErr /\ serve.last.calls = 1) => serve.got.calls = 0
        /\ (serve.last.err = NoErr /\ serve.got.calls = 0) =>
              /\ serve.status = serve.last.status
              /\ serve.page = serve.last.page /\ serve.shown = serve.last.shown
        /\ serve.last.err # NoErr => serve.got.calls = 1

\* /MIR-1 was answered 404 from a fetch that found no issue, the issue was
\* then created in the tracker, and /mir-1 was answered 404 without a fetch.
C35_Witness ==
    /\ SecondOfPair /\ serve.path = <<"m", "i", "r", "-", "1">>
    /\ serve.last.calls = 1 /\ serve.last.page = "notfound"
    /\ serve.page = "notfound" /\ serve.status = 404 /\ serve.got.calls = 0
    /\ remote["MIR-1"] # Nil

\* The path, upper-cased, is the upper-cased team key, a hyphen and one or
\* more digits.
WellFormedPath(path, key) ==
    /\ Len(path) > Len(key) + 1
    /\ SameButCase(SubSeq(path, 1, Len(key)), key)
    /\ path[Len(key) + 1] = "-"
    /\ \A j \in (Len(key) + 2)..Len(path) : path[j] \in DecimalDigits

\* C36: a request whose upper-cased identifier is not the upper-cased team
\* key, a hyphen and digits is answered 404 in the step that takes it,
\* with no Cache.Get call and the map left as it is; so every Get and every
\* entry is for an identifier of the team.
C36_MalformedNeverReachesCache ==
    /\ [][(serve.pc = "idle" /\ serve'.pc # "idle"
             /\ ~WellFormedPath(serve'.path, serve.teamKey)) =>
                /\ serve'.pc = "done"
                /\ serve'.status = 404 /\ serve'.page = "notfound"
                /\ ~serve'.got.called
                /\ get' = get /\ entries' = entries]_vars
    /\ [](/\ (serve.pc # "idle" /\ ~WellFormedPath(serve.path, serve.teamKey)) =>
                /\ serve.pc = "done" /\ ~serve.got.called
                /\ get["g1"].pc = "idle"
          /\ \A k \in Identifiers :
                (entries[k] # NoEntry \/ get["g1"].identifier = k)
                    => WellFormedPath(IdentifierText(k), serve.teamKey))

\* /ABC-1 was answered 404 by the server of the team "mir" while its cache
\* held an entry for MIR-1 only.
C36_Witness ==
    /\ serve.pc = "done" /\ serve.path = <<"A", "B", "C", "-", "1">>
    /\ serve.teamKey = <<"m", "i", "r">>
    /\ serve.status = 404 /\ ~serve.got.called
    /\ entries["MIR-1"] # NoEntry /\ entries["MIR-2"] = NoEntry

(* -------------------- RepoScanner: ScanRepo returns --------------------- *)

\* C37: when git and every request return and every source's chain of next
\* links ends, a ScanRepo call that has begun returns, with a result or
\* with an error.
C37_ScanRepoReturns ==
    (backfill.pc # "idle") ~> (backfill.pc = "done")

\* ScanRepo has returned its result after MaxPages pages of every source.
C37_Witness ==
    /\ ScanSucceeded
    /\ Len(backfill.log) = 4 * MaxPages
    /\ backfill.log[Len(backfill.log)].url = PageURL("review comments", MaxPages)
(* ------------------- the backfill command: properties ------------------ *)
\* The command's labeler has made no FetchIssue, FetchLabelByName or
\* AddLabel call: no EnsurePublicLabel invocation has begun.
NoLabellingCall ==
    /\ started = 0
    /\ labelFetches = 0
    /\ run.attempts = <<>>
    /\ \A g \in Goroutines : ensure[g].pc = "idle" /\ ensure[g].calls = <<>>

\* C38: without -apply the command makes no FetchIssue, FetchLabelByName
\* or AddLabel call and leaves the tracker as it is, and after a scan
\* without error it lists the scanned identifiers; when the scan fails no
\* such call is made with or without -apply.
C38_DryRunMakesNoCall ==
    /\ []((~run.apply \/ run.err = "scan repo") => NoLabellingCall)
    /\ []((~run.apply /\ run.pc = "done" /\ run.err = "")
             => run.listed = run.identifiers.elems)
    /\ []((run.pc = "done" /\ run.err = "scan repo")
             => run.listed = <<>> /\ run.identifiers = NilSlice)
    /\ [][(~run.apply \/ run.err = "scan repo") => remote' = remote]_vars

\* A dry run listed two identifiers, one of them of an issue that -apply
\* would have labelled, and returned.
C38_Witness ==
    /\ ~run.apply /\ run.pc = "done" /\ run.err = ""
    /\ run.listed = <<"MIR-2", "MIR-1">>
    /\ remote["MIR-1"] = Issue("MIR-1", <<"nonpublic">>)
    /\ remoteLabel = LabelUUID
    /\ NoLabellingCall
\* The issue carries the "public" label in the tracker.
PublicInTracker(k) ==
    remote[k] # Nil /\ \E i \in DOMAIN remote[k].Labels : remote[k].Labels[i] = "public"

\* The attempt ended with a successful AddLabel call.
Applied(attempt) ==
    /\ attempt.err = NilError
    /\ attempt.calls # <<>>
    /\ attempt.calls[Len(attempt.calls)][1] = "AddLabel"

\* C39: with -apply the EnsurePublicLabel calls are made one at a time on
\* one PublicLabeler, the j-th for the j-th scanned identifier; every call
\* before the latest returned nil, so no identifier after a failing one is
\* attempted; a run that ends without error has attempted every
\* identifier, a run that ends with a labelling error ends at the first
\* failing call; and at the end the labels that earlier calls applied are
\* still on their issues.
C39_ApplyAbortsOnFirstError ==
    run.apply =>
        LET ids == run.identifiers.elems
            n == Len(run.attempts)
        IN  /\ n <= Len(ids)
            /\ \A j \in 1..n : run.attempts[j].id = ids[j]
            /\ \A j \in 1..(n - 1) : run.attempts[j].err = NilError
            /\ started \in {n, n + 1}
            /\ started = n + 1 => ensure["g1"].identifier = ids[n + 1]
            /\ \A g \in Goroutines \ {"g1"} : ensure[g].pc = "idle"
            /\ labelFetches <= 1
            /\ (run.pc = "done" /\ run.err = "") => n = Len(ids) /\ started = n
            /\ (run.pc = "done" /\ run.err = "label")
                  => /\ n >= 1 /\ started = n
                     /\ run.attempts[n].err # NilError
            /\ run.pc = "done"
                  => \A j \in 1..n : Applied(run.attempts[j]) => PublicInTracker(ids[j])

\* The run labelled the first of two identifiers and ended on the error of
\* the second call: the first issue keeps its label.
C39_Witness ==
    /\ run.apply /\ run.pc = "done" /\ run.err = "label"
    /\ run.identifiers.elems = <<"MIR-2", "MIR-1">>
    /\ Len(run.attempts) = 2
    /\ Applied(run.attempts[1])
    /\ run.attempts[2].err # NilError
    /\ PublicInTracker("MIR-2")

====
